---- MODULE Spec2Model ----
(***************************************************************************)
(* Model of waf_sender.go (WAFCollector): the persisted poll-window        *)
(* tracker (getLastRunTime / saveLastRunTime / window computation of       *)
(* getTrafficData), the device-id resolver (findWorkingDeviceID) and the   *)
(* run() pipeline (collectAllData, sendToZabbix, sendCollectorStatus).     *)
(*                                                                         *)
(* Time.  An instant is an integer number of ticks since the epoch (UTC),  *)
(* SubSecond ticks to the second.  A time.Time value is a record           *)
(* [ok, t, zone]: t the instant, zone the offset in seconds of the         *)
(* location it prints in.  A timestamp text is a record                    *)
(* [shape, wall, frac, off]: its textual shape, the wall-clock second it   *)
(* spells, the sub-second ticks it spells and the zone offset it spells.   *)
(***************************************************************************)
EXTENDS Integers, Sequences, FiniteSets, TLC

\* ------------------------------------------------------------------ bounds
SubSecond == 2          \* ticks per second: the clock is finer than the format
MaxRuns == 2            \* sequential invocations of run() in one behaviour
MaxTicks == 3           \* clock advances inside one behaviour of the pipeline

\* ------------------------------------------------------------- durations
Second == SubSecond
Minute == 60 * Second
Hour == 60 * Minute
Day == 24 * Hour

\* maxRange with the ceiling of "hours" mistaken for that of "mins"
maxRange_hoursAsMins(dt) ==
    IF dt = "days" THEN 30 * 24 * Hour ELSE 24 * Hour

\* maxRanges[w.dataType], with the zero-value fallback (lines 455-464)
maxRange(dt) ==
    IF dt = "mins" THEN 24 * Hour
    ELSE IF dt = "hours" THEN 7 * 24 * Hour
    ELSE IF dt = "days" THEN 30 * 24 * Hour
    ELSE 24 * Hour

\* timeWindow with the first window of "days" mistaken for that of "hours"
timeWindow_daysAsHours(dt) ==
    IF dt = "mins" THEN 5 * Minute
    ELSE IF dt = "hours" \/ dt = "days" THEN 2 * Hour
    ELSE 5 * Minute

\* timeWindows[w.dataType], with the zero-value fallback (lines 475-484)
timeWindow(dt) ==
    IF dt = "mins" THEN 5 * Minute
    ELSE IF dt = "hours" THEN 2 * Hour
    ELSE IF dt = "days" THEN 2 * 24 * Hour
    ELSE 5 * Minute

\* --------------------------------------------------------- time and texts
\* *time.Time == nil
NilTime == [ok |-> FALSE, t |-> 0, zone |-> 0]

\* a time.Time value
Time(t, zone) == [ok |-> TRUE, t |-> t, zone |-> zone]

\* a string that is no timestamp (empty, or anything else)
NoText == [shape |-> "garbage", wall |-> 0, frac |-> 0, off |-> 0]

\* t.Add(d): same location, shifted instant
TimeAdd(tm, d) == [tm EXCEPT !.t = tm.t + d]

\* t.Before(u): instants compared, locations ignored
TimeBefore(tm, um) == tm.t < um.t

\* Format with a layout that spells no zone offset ("2006-01-02T15:04:05")
FormatRFC3339_noZone(tm) ==
    [shape |-> "iso", wall |-> (tm.t \div SubSecond) + tm.zone, frac |-> 0, off |-> 0]

\* runTime.Format(time.RFC3339): "2006-01-02T15:04:05Z07:00" has no
\* fractional-second field, so the sub-second part is dropped; the wall clock
\* and the offset are those of the value's location.
FormatRFC3339(tm) ==
    [shape |-> "rfc3339", wall |-> (tm.t \div SubSecond) + tm.zone,
     frac |-> 0, off |-> tm.zone]

\* The layouts of getLastRunTime in the order the code tries them.
Layouts == <<"RFC3339", "T.frac", "T", "space">>

\* time.Parse(layout, text) succeeds.  Parse accepts a fractional second after
\* the seconds field even if the layout has none, and a layout written with
\* .999999 accepts a text without fraction.
ParseOK(layout, text) ==
    CASE layout = "RFC3339" -> text.shape \in {"rfc3339", "rfc3339frac"}
      [] layout = "T.frac"  -> text.shape \in {"isofrac", "iso"}
      [] layout = "T"       -> text.shape \in {"iso", "isofrac"}
      [] layout = "space"   -> text.shape \in {"space", "spacefrac"}
      [] OTHER              -> FALSE

\* time.Parse(layout, text) when it succeeds: a text with an offset denotes
\* the instant wall - off; a text without zone is read as UTC.
ParseValue(layout, text) ==
    IF layout = "RFC3339"
    THEN Time((text.wall - text.off) * SubSecond + text.frac, text.off)
    ELSE Time(text.wall * SubSecond + text.frac, 0)

\* ------------------------------------------------------ persisted state
\* The state file: absent, unreadable, not JSON, or a LastRunInfo object.
NoFile == [st |-> "absent", last_run_time |-> NoText, data_type |-> "", zabbix_host |-> ""]
UnreadableFile == [NoFile EXCEPT !.st = "unreadable"]
BadJSONFile == [NoFile EXCEPT !.st = "badjson"]
TruncatedFile == [NoFile EXCEPT !.st = "truncated"]
StateFile(text, dt, host) ==
    [st |-> "json", last_run_time |-> text, data_type |-> dt, zabbix_host |-> host]

\* FirstLayout trying the whole-second layout before the fractional one
FirstLayout_wholeBeforeFrac(text) ==
    IF ParseOK(Layouts[1], text) THEN 1
    ELSE IF ParseOK(Layouts[3], text) THEN 3
    ELSE IF ParseOK(Layouts[2], text) THEN 2
    ELSE IF ParseOK(Layouts[4], text) THEN 4
    ELSE 0

\* index of the first layout that parses the text, 0 if none does
FirstLayout(text) ==
    IF ParseOK(Layouts[1], text) THEN 1
    ELSE IF ParseOK(Layouts[2], text) THEN 2
    ELSE IF ParseOK(Layouts[3], text) THEN 3
    ELSE IF ParseOK(Layouts[4], text) THEN 4
    ELSE 0

\* getLastRunTime (lines 255-295): nil when the file cannot be read or
\* decoded or no layout parses; otherwise the value of the first layout that
\* parses.
getLastRunTime(f) ==
    IF f.st # "json" THEN NilTime
    ELSE IF FirstLayout(f.last_run_time) = 0 THEN NilTime
    ELSE ParseValue(Layouts[FirstLayout(f.last_run_time)], f.last_run_time)

\* the layout getLastRunTime used, 0 when it returned nil
LoadedVia(f) == IF f.st # "json" THEN 0 ELSE FirstLayout(f.last_run_time)

\* Outcomes of os.WriteFile(lastRunFile, data, 0644)
WriteOutcomes == {"written", "openfail", "writefail"}

\* saveLastRunTime leaving alone a file that holds a later time
saveLastRunTime_keepsNewer(f, runTime, dt, host, outcome) ==
    IF f.st = "json" /\ f.last_run_time.shape = "rfc3339"
       /\ f.last_run_time.wall - f.last_run_time.off > runTime.t \div SubSecond
    THEN f
    ELSE CASE outcome = "written"   -> StateFile(FormatRFC3339(runTime), dt, host)
           [] outcome = "openfail"  -> f
           [] outcome = "writefail" -> TruncatedFile

\* saveLastRunTime (lines 298-315): the new content of the file.  WriteFile
\* truncates on open: a failure to open leaves the file alone, a failure
\* while writing leaves a truncated file.  Both are only logged.
saveLastRunTime(f, runTime, dt, host, outcome) ==
    CASE outcome = "written"   -> StateFile(FormatRFC3339(runTime), dt, host)
      [] outcome = "openfail"  -> f
      [] outcome = "writefail" -> TruncatedFile

\* The time range of getTrafficData (lines 447-488).
computeWindow(dt, lastRunTime, endTime) ==
    IF lastRunTime.ok
    THEN LET minStartTime == TimeAdd(endTime, 0 - maxRange(dt))
         IN  [start |-> IF TimeBefore(lastRunTime, minStartTime)
                        THEN minStartTime ELSE lastRunTime,
              end |-> endTime]
    ELSE [start |-> TimeAdd(endTime, 0 - timeWindow(dt)), end |-> endTime]

\* Format("2006-01-02 15:04:05"): the wall clock of the value's own location,
\* as a number of seconds
WallSecond(tm) == (tm.t \div SubSecond) + tm.zone

\* lines 491-498: the time range as the request carries it, each end printed
\* in the location of its own value
trafficParams(w) ==
    [timestamp__ge |-> WallSecond(w.start), timestamp__lt |-> WallSecond(w.end)]

\* the time range of a traffic request: the two instants and what the request
\* carries for them
QueryWindow(w) ==
    [start |-> w.start, end |-> w.end, params |-> trafficParams(w)]

\* ------------------------------------------------------------ appliance
\* An API response as doRequest sees it: st is "SUCCESS" when the transport,
\* the HTTP status, the envelope and its code are all fine, and names the
\* failure otherwise; decodes says whether Data unmarshals into the structure
\* the caller expects.
\* the categories walked from the last to the first
SiteTypes_bridgeFirst == <<"bridge", "sniffer", "traction", "transparent", "reverse">>

\* line 355: the site types of the topology walk, in order
SiteTypes == <<"reverse", "transparent", "traction", "sniffer", "bridge">>

\* doRequest (lines 105-152) returns no error
doRequestOK(resp) == resp.st = "SUCCESS"

\* a call made through doRequest, as logged in the model
Call(ep, app, dev) == [ep |-> ep, app |-> app, dev |-> dev]

\* The sentinel of the traffic records
Sentinel == [kind |-> "string", s |-> "-", n |-> 0]
Num(n) == [kind |-> "number", s |-> "", n |-> n]
Str(s) == [kind |-> "string", s |-> s, n |-> 0]

\* v != "-" on an interface{} value: only the string "-" is the sentinel
IsSentinel(v) == v.kind = "string" /\ v.s = "-"

\* the validity test of a raw record (lines 431-435 and 522-527)
RecordValid(rec) ==
    \E k \in DOMAIN rec : k # "timestamp" /\ ~IsSentinel(rec[k])

\* the appliance's answer to a traffic query for (app, dev)
TrafficResponse(a, app, dev) ==
    IF <<app, dev>> \in a.valid
    THEN [st |-> "SUCCESS", decodes |-> TRUE, result |-> a.records]
    ELSE CASE a.badKind = "error"    -> [st |-> "error", decodes |-> FALSE, result |-> <<>>]
           [] a.badKind = "apicode"  -> [st |-> "FAIL", decodes |-> TRUE, result |-> <<>>]
           [] a.badKind = "baddata"  -> [st |-> "SUCCESS", decodes |-> FALSE, result |-> <<>>]
           [] a.badKind = "empty"    -> [st |-> "SUCCESS", decodes |-> TRUE, result |-> <<>>]
           [] OTHER                  -> [st |-> "SUCCESS", decodes |-> TRUE,
                                         result |-> <<[timestamp |-> Str("t"),
                                                       bytes_in_rate_avg |-> Sentinel]>>]

\* ------------------------------------------------------------- resolver
\* getDeviceID leaving the placeholder "default" in the cache when it fails
getDeviceID_cachesDefault(cache, a) ==
    IF cache # ""
    THEN [id |-> cache, cache |-> cache, calls |-> <<>>]
    ELSE IF ~doRequestOK(a.name) \/ ~a.name.decodes
         THEN [id |-> "", cache |-> "default", calls |-> <<Call("name", "", "")>>]
         ELSE [id |-> a.name.id, cache |-> a.name.id, calls |-> <<Call("name", "", "")>>]

\* getDeviceID that asks the appliance every time and keeps nothing
getDeviceID_neverCaches(cache, a) ==
    IF ~doRequestOK(a.name) \/ ~a.name.decodes
    THEN [id |-> "", cache |-> cache, calls |-> <<Call("name", "", "")>>]
    ELSE [id |-> a.name.id, cache |-> cache, calls |-> <<Call("name", "", "")>>]

\* getDeviceID (lines 166-192): the id, the cache afterwards, the calls made
getDeviceID(cache, a) ==
    IF cache # ""
    THEN [id |-> cache, cache |-> cache, calls |-> <<>>]
    ELSE IF ~doRequestOK(a.name) \/ ~a.name.decodes
         THEN [id |-> "", cache |-> cache, calls |-> <<Call("name", "", "")>>]
         ELSE [id |-> a.name.id, cache |-> a.name.id, calls |-> <<Call("name", "", "")>>]

\* getDeviceSerial (lines 195-209)
getDeviceSerial(a) ==
    IF ~doRequestOK(a.info) \/ ~a.info.decodes THEN "" ELSE a.info.serial

\* tryGetData taking the timestamp for a data field
tryGetData_countsTimestamp(a, app, dev) ==
    LET resp == TrafficResponse(a, app, dev)
    IN  /\ doRequestOK(resp)
        /\ resp.decodes
        /\ \E i \in 1..Len(resp.result) :
              \E k \in DOMAIN resp.result[i] : ~IsSentinel(resp.result[i][k])

\* tryGetData (lines 408-439)
tryGetData(a, app, dev) ==
    LET resp == TrafficResponse(a, app, dev)
    IN  /\ doRequestOK(resp)
        /\ resp.decodes
        /\ \E i \in 1..Len(resp.result) : RecordValid(resp.result[i])

\* isPlaceholderID without the "auto" case
isPlaceholderID_noAuto(orig) == orig = "" \/ orig = "0"

\* line 320: the candidate stands for "no id"
isPlaceholderID(orig) == orig = "" \/ orig = "0" \/ orig = "auto"

\* structUsable with the comparison to the candidate inverted
structUsable_sameAsCandidate(site, app, orig) ==
    /\ site.ID = app
    /\ site.StructID # ""
    /\ site.StructID = orig
    /\ site.StructID # "0"

\* line 338: the cached site whose struct_pk is worth a probe
structUsable(site, app, orig) ==
    /\ site.ID = app
    /\ site.StructID # ""
    /\ site.StructID # orig
    /\ site.StructID # "0"

\* the cluster filter without the "1" case
clusterUsable_allowsOne(cid, orig) == cid # "" /\ cid # "0" /\ cid # orig

\* line 378: a cluster id worth a probe
clusterUsable(cid, orig) == cid # "" /\ cid # "0" /\ cid # "1" /\ cid # orig

RECURSIVE Flatten(_)
Flatten(ss) == IF ss = <<>> THEN <<>> ELSE Head(ss) \o Flatten(Tail(ss))

\* lines 369-392: the _pk of every node three levels down, in document order
ClusterIDs(roots) ==
    Flatten([i \in 1..Len(roots) |->
        Flatten([j \in 1..Len(roots[i].children) |->
            [k \in 1..Len(roots[i].children[j].children) |->
                roots[i].children[j].children[k].pk]])])

\* Probing ids in order until one is valid: the id found ("" with found
\* FALSE when none is) and the probes made.
RECURSIVE ProbeInOrder(_, _, _)
ProbeInOrder(a, app, ids) ==
    IF ids = <<>> THEN [found |-> FALSE, id |-> "", calls |-> <<>>]
    ELSE IF tryGetData(a, app, Head(ids))
         THEN [found |-> TRUE, id |-> Head(ids),
               calls |-> <<Call("traffic", app, Head(ids))>>]
         ELSE LET rest == ProbeInOrder(a, app, Tail(ids))
              IN  [rest EXCEPT !.calls = <<Call("traffic", app, Head(ids))>> \o @]

\* lines 356-393, from the i-th site type on
RECURSIVE WalkTopology(_, _, _, _)
WalkTopology(a, app, orig, i) ==
    IF i > Len(SiteTypes) THEN [found |-> FALSE, id |-> "", calls |-> <<>>]
    ELSE LET resp == a.tree[SiteTypes[i]]
             fetch == <<Call("tree", "", SiteTypes[i])>>
             Usable(cid) == clusterUsable(cid, orig)
             here == IF doRequestOK(resp) /\ resp.decodes
                     THEN ProbeInOrder(a, app, SelectSeq(ClusterIDs(resp.roots), Usable))
                     ELSE [found |-> FALSE, id |-> "", calls |-> <<>>]
         IN  IF here.found
             THEN [here EXCEPT !.calls = fetch \o @]
             ELSE LET rest == WalkTopology(a, app, orig, i + 1)
                  IN  [rest EXCEPT !.calls = fetch \o here.calls \o @]

\* lines 337-344: the struct_pk to probe, as a sequence of zero or one id
StructCandidates(sites, app, orig) ==
    LET Usable(site) == structUsable(site, app, orig)
        hits == SelectSeq(sites, Usable)
    IN  IF hits = <<>> THEN <<>> ELSE <<hits[1].StructID>>

\* the resolver falling back to the serial number when nothing answered
exhaustedID_serial(orig, serial) == serial

\* line 404: every strategy failed, the candidate goes back as it came
exhaustedID(orig, serial) == orig

\* findWorkingDeviceID (lines 318-405): the id returned, the device-id cache
\* afterwards, and the API calls made, in order.
findWorkingDeviceID(a, sites, cache, app, orig) ==
    LET g1 == IF isPlaceholderID(orig) THEN getDeviceID(cache, a)
              ELSE [id |-> "", cache |-> cache, calls |-> <<>>]
        p1 == ProbeInOrder(a, app, <<orig>>)
        p2 == ProbeInOrder(a, app, StructCandidates(sites, app, orig))
        g2 == getDeviceID(g1.cache, a)
        p3 == IF g2.id # "" /\ g2.id # orig
              THEN ProbeInOrder(a, app, <<g2.id>>)
              ELSE [found |-> FALSE, id |-> "", calls |-> <<>>]
        p4 == WalkTopology(a, app, orig, 1)
        serial == getDeviceSerial(a)
        p5 == IF serial # "" /\ serial # orig
              THEN ProbeInOrder(a, app, <<serial>>)
              ELSE [found |-> FALSE, id |-> "", calls |-> <<>>]
        c1 == g1.calls \o p1.calls
        c2 == c1 \o p2.calls
        c3 == c2 \o g2.calls \o p3.calls
        c4 == c3 \o p4.calls
        c5 == c4 \o <<Call("info", "", "")>> \o p5.calls
    IN  IF isPlaceholderID(orig) /\ g1.id # ""
        THEN [id |-> g1.id, cache |-> g1.cache, calls |-> g1.calls]
        ELSE IF p1.found THEN [id |-> orig, cache |-> g1.cache, calls |-> c1]
        ELSE IF p2.found THEN [id |-> p2.id, cache |-> g1.cache, calls |-> c2]
        ELSE IF p3.found THEN [id |-> p3.id, cache |-> g2.cache, calls |-> c3]
        ELSE IF p4.found THEN [id |-> p4.id, cache |-> g2.cache, calls |-> c4]
        ELSE IF p5.found THEN [id |-> p5.id, cache |-> g2.cache, calls |-> c5]
        ELSE [id |-> exhaustedID(orig, serial), cache |-> g2.cache, calls |-> c5]

\* ------------------------------------------------------------ collector
\* w.zabbixHost, the target identity
ZabbixHost == "waf-monitor"

\* the ten metric fields, in the order collectAllData appends their points
MetricKeys == <<"bytes_in_rate_avg", "bytes_in_rate_max",
                "bytes_out_rate_avg", "bytes_out_rate_max",
                "conn_cur_avg", "conn_cur_max", "conn_rate_avg",
                "http_req_cnt_avg", "http_req_cnt_max", "http_req_rate_avg">>

\* t.Unix()
Unix(t) == t \div SubSecond

\* a ZabbixData item; the key "metric[site]" is kept as its two parts
Point(metric, site, value, clock) ==
    [metric |-> metric, site |-> site, value |-> value, clock |-> clock]

\* getFloatValue giving -1 for a field that is not there
getFloatValue_absentMinusOne(m, key) ==
    IF key \in DOMAIN m
    THEN IF m[key].kind = "number" THEN m[key].n ELSE 0
    ELSE 0 - 1

\* getFloatValue (lines 611-623)
getFloatValue(m, key) ==
    IF key \in DOMAIN m /\ m[key].kind = "number" THEN m[key].n ELSE 0

\* lines 534-544: the clock of a record; a timestamp string that parses as
\* "2006-01-02 15:04:05" is read as UTC, anything else gives the current time
RecordClock(rec, nowT) ==
    IF "timestamp" \in DOMAIN rec /\ rec["timestamp"].kind = "string"
       /\ rec["timestamp"].s = "time"
    THEN rec["timestamp"].n
    ELSE Unix(nowT)

\* a sample stamped with the time of the query instead of the record's own
Sample_nowClock(rec, nowT) ==
    [Timestamp |-> Unix(nowT),
     fields |-> [k \in 1..Len(MetricKeys) |-> getFloatValue(rec, MetricKeys[k])]]

\* lines 547-559: the TrafficData built from a valid record
Sample(rec, nowT) ==
    [Timestamp |-> RecordClock(rec, nowT),
     fields |-> [k \in 1..Len(MetricKeys) |-> getFloatValue(rec, MetricKeys[k])]]

\* TrafficData{Timestamp: time.Now().Unix()}
ZeroSample(nowT) ==
    [Timestamp |-> Unix(nowT), fields |-> [k \in 1..Len(MetricKeys) |-> 0]]

\* sort.Slice by Timestamp (lines 569-571), as an insertion sort
RECURSIVE InsertSample(_, _)
InsertSample(x, ss) ==
    IF ss = <<>> THEN <<x>>
    ELSE IF x.Timestamp < Head(ss).Timestamp THEN <<x>> \o ss
    ELSE <<Head(ss)>> \o InsertSample(x, Tail(ss))

RECURSIVE SortSamples(_)
SortSamples(ss) ==
    IF ss = <<>> THEN <<>>
    ELSE InsertSample(ss[Len(ss)], SortSamples(SubSeq(ss, 1, Len(ss) - 1)))

\* getTrafficData returning no sample at all for a response without a
\* valid record
SamplesOf_emptyGivesNone(resp, nowT) ==
    IF ~doRequestOK(resp) \/ ~resp.decodes THEN <<ZeroSample(nowT)>>
    ELSE LET IsValid(rec) == RecordValid(rec)
             valid == SelectSeq(resp.result, IsValid)
             pts == [i \in 1..Len(valid) |-> Sample(valid[i], nowT)]
         IN  IF Len(pts) > 1 THEN SortSamples(pts) ELSE pts

\* getTrafficData returning nil for a failed request
SamplesOf_errorGivesNone(resp, nowT) ==
    IF ~doRequestOK(resp) \/ ~resp.decodes THEN <<>>
    ELSE LET IsValid(rec) == RecordValid(rec)
             valid == SelectSeq(resp.result, IsValid)
             pts == [i \in 1..Len(valid) |-> Sample(valid[i], nowT)]
         IN  IF Len(pts) = 0 THEN <<ZeroSample(nowT)>>
             ELSE IF Len(pts) > 1 THEN SortSamples(pts) ELSE pts

\* lines 502-607: the samples of one traffic response
SamplesOf(resp, nowT) ==
    IF ~doRequestOK(resp) \/ ~resp.decodes THEN <<ZeroSample(nowT)>>
    ELSE LET IsValid(rec) == RecordValid(rec)
             valid == SelectSeq(resp.result, IsValid)
             pts == [i \in 1..Len(valid) |-> Sample(valid[i], nowT)]
         IN  IF Len(pts) = 0 THEN <<ZeroSample(nowT)>>
             ELSE IF Len(pts) > 1 THEN SortSamples(pts) ELSE pts

\* getTrafficData (lines 442-608) at time nowT: the samples, the cache
\* afterwards, the API calls, the window asked for and the state loaded.
getTrafficData(a, sites, cache, f, dt, zone, nowT, app, dev) ==
    LET r == findWorkingDeviceID(a, sites, cache, app, dev)
        lastRunTime == getLastRunTime(f)
        w == computeWindow(dt, lastRunTime, Time(nowT, zone))
    IN  [samples |-> SamplesOf(TrafficResponse(a, app, r.id), nowT),
         cache |-> r.cache,
         calls |-> r.calls \o <<Call("traffic", app, r.id)>>,
         window |-> QueryWindow(w),
         loaded |-> lastRunTime,
         device |-> r.id]

\* the points of a sample keyed by the metric alone
SamplePoints_noSite(site, smp) ==
    [k \in 1..Len(MetricKeys) |->
        Point(MetricKeys[k], "", Num(smp.fields[k]), smp.Timestamp)]

\* lines 729-807: the ten points of one sample
SamplePoints(site, smp) ==
    [k \in 1..Len(MetricKeys) |->
        Point(MetricKeys[k], site.Name, Num(smp.fields[k]), smp.Timestamp)]

\* the site loop emitting the points of the first sample only
AllSamplePoints_firstOnly(site, smps) ==
    IF smps = <<>> THEN <<>> ELSE SamplePoints(site, Head(smps))

RECURSIVE AllSamplePoints(_, _)
AllSamplePoints(site, smps) ==
    IF smps = <<>> THEN <<>>
    ELSE SamplePoints(site, Head(smps)) \o AllSamplePoints(site, Tail(smps))

\* the disabled branch without its last metric
ZeroPoints_noRate(site, timestamp) ==
    [k \in 1..(Len(MetricKeys) - 1) |->
        Point(MetricKeys[k], site.Name, Num(0), timestamp)]

\* lines 812-826: the ten zero points of a disabled site
ZeroPoints(site, timestamp) ==
    [k \in 1..Len(MetricKeys) |-> Point(MetricKeys[k], site.Name, Num(0), timestamp)]

\* lines 669-692: the discovery record of a site
DiscoveryRecord(site, deviceID) ==
    LET siteDeviceID == IF site.StructID = "0" \/ site.StructID = ""
                        THEN deviceID ELSE site.StructID
    IN  [SITE_ID |-> site.ID, SITE_NAME |-> site.Name,
         SITE_ENABLE |-> IF site.Enabled THEN "1" ELSE "0",
         STRUCT_ID |-> siteDeviceID, DEVICE_ID |-> siteDeviceID,
         STRUCT_PK |-> site.StructID]

\* the discovery list leaving out the sites that are switched off
discoveryData_enabledOnly(sites, deviceID) ==
    LET IsOn(site) == site.Enabled
        on == SelectSeq(sites, IsOn)
    IN  [i \in 1..Len(on) |-> DiscoveryRecord(on[i], deviceID)]

\* lines 668-692: discoveryData, one record per site in listing order
discoveryData(sites, deviceID) ==
    [i \in 1..Len(sites) |-> DiscoveryRecord(sites[i], deviceID)]

\* lines 695-701: json.Marshal(map[string]interface{}{"data": discoveryData}),
\* a JSON object whose member "data" is the array of records, as the value of
\* the point waf.sites.discovery
discoveryPoint(records, ts) ==
    Point("waf.sites.discovery", "",
          [kind |-> "json", wrapper |-> "data", records |-> records], ts)

\* lines 721-724: the candidate id handed to getTrafficData
actualDeviceID(site, deviceID) ==
    IF site.StructID # "0" THEN site.StructID ELSE deviceID

\* getSites (lines 212-252): the sites listed, <<>> on any failure
getSites(a) ==
    IF ~doRequestOK(a.sites) \/ ~a.sites.decodes THEN <<>> ELSE a.sites.result

\* login that never reports a failure
login_ignoresError(a) == TRUE

\* login (lines 155-163)
login(a) == doRequestOK(a.name)

\* Outcomes of sendToZabbix on a non-empty batch: the temporary file cannot
\* be created or written, zabbix_sender is not installed, it exits non-zero,
\* or it delivers.
SinkOutcomes == {"tmpfail", "nosender", "exitfail", "delivered"}

\* sendToZabbix ignoring the exit status of zabbix_sender
sendToZabbix_ignoresExit(batch, outcome) ==
    Len(batch) > 0 /\ outcome \in {"delivered", "exitfail"}

\* sendToZabbix (lines 834-951) returns true
sendToZabbix(batch, outcome) == Len(batch) > 0 /\ outcome = "delivered"

\* run() saving whatever the sink said
RunBranch_savesAlways(batch, sendOK) ==
    IF Len(batch) > 0 THEN "save" ELSE "status"

\* run() returning without a word when nothing was collected
RunBranch_silentOnEmpty(batch, sendOK) ==
    IF Len(batch) > 0
    THEN IF sendOK THEN "save" ELSE "status"
    ELSE "done"

\* lines 976-994 of run(): what follows the collection
RunBranch(batch, sendOK) ==
    IF Len(batch) > 0
    THEN IF sendOK THEN "save" ELSE "status"
    ELSE "status"

\* main exiting 0 whatever run() returned
mainExit_alwaysZero(success) == [code |-> 0, stdout |-> "0"]

\* main (lines 1031-1040): the exit code and the line printed
mainExit(success) ==
    IF success THEN [code |-> 0, stdout |-> "0"] ELSE [code |-> 1, stdout |-> "1"]

\* run() saving the time of the save instead of the time of its start
runTimeSaved_now(startT, nowT) == nowT

\* line 983: the time run() hands to saveLastRunTime
runTimeSaved(startT, nowT) == startT

\* -------------------------------------------------------------- encoder
\* A text is a sequence of pieces: a piece is one of the characters the
\* encoder looks for, or a run of other characters.
Space == " "
Quote == "\""
Backslash == "\\"
Newline == "\n"
Bracket == "["

\* strings.Contains(s, c) for a single character c
Contains(s, c) == \E i \in DOMAIN s : s[i] = c

\* strings.ReplaceAll(s, c, with) for a single character c
RECURSIVE ReplaceAll(_, _, _)
ReplaceAll(s, c, with) ==
    IF s = <<>> THEN <<>>
    ELSE (IF Head(s) = c THEN with ELSE <<Head(s)>>) \o ReplaceAll(Tail(s), c, with)

Digits == <<"0", "1", "2", "3", "4", "5", "6", "7", "8", "9">>

\* fmt's %d of a non-negative integer
RECURSIVE DecimalText(_)
DecimalText(n) ==
    IF n < 10 THEN <<Digits[n + 1]>>
    ELSE DecimalText(n \div 10) \o <<Digits[(n % 10) + 1]>>

\* a ZabbixData item with its key as text; Value is a string or an integer
ZabbixData(host, key, value, clock) ==
    [Host |-> host, Key |-> key, Value |-> value, Clock |-> clock]
StringValue(text) == [kind |-> "string", text |-> text]
IntValue(n) == [kind |-> "int", n |-> n]

\* fmt.Sprintf("waf.site.status[%s]", site.Name) and its like
SiteKey(metric, siteName) == <<metric, Bracket>> \o siteName \o <<"]">>

\* the key quoted only for a space
quoteKey_spaceOnly(key) ==
    IF Contains(key, Space) THEN <<Quote>> \o key \o <<Quote>> ELSE key

\* lines 852-856: the key as written
quoteKey(key) ==
    IF Contains(key, Space) \/ Contains(key, Bracket)
    THEN <<Quote>> \o key \o <<Quote>>
    ELSE key

\* the two replacements in the other order
escapeValue_quotesFirst(strVal) ==
    ReplaceAll(ReplaceAll(strVal, Quote, <<Backslash, Quote>>),
               Backslash, <<Backslash, Backslash>>)

\* lines 861-863: backslashes doubled, then quotes escaped
escapeValue(strVal) ==
    ReplaceAll(ReplaceAll(strVal, Backslash, <<Backslash, Backslash>>),
               Quote, <<Backslash, Quote>>)

\* lines 850 and 858-866: the value as written
encodeValue(value) ==
    IF value.kind = "string"
    THEN IF Contains(value.text, Space) \/ Contains(value.text, Quote)
            \/ Contains(value.text, Newline)
         THEN <<Quote>> \o escapeValue(value.text) \o <<Quote>>
         ELSE value.text
    ELSE DecimalText(value.n)

\* line 869: the four fields of the line of one item
encodeFields(item) ==
    [host |-> <<item.Host>>, key |-> quoteKey(item.Key),
     clock |-> DecimalText(item.Clock), value |-> encodeValue(item.Value)]

\* line 869: "%s %s %d %s\n"
encodeLine(item) ==
    LET f == encodeFields(item)
    IN  f.host \o <<Space>> \o f.key \o <<Space>> \o f.clock \o <<Space>> \o f.value
            \o <<Newline>>

\* lines 849-873: the content of the temporary file
RECURSIVE encodeBatch(_)
encodeBatch(batch) ==
    IF batch = <<>> THEN <<>> ELSE encodeLine(Head(batch)) \o encodeBatch(Tail(batch))

\* the identity with its slashes dropped
safeHost_dropsSlash(zabbixHost) == ReplaceAll(zabbixHost, "/", <<>>)

\* line 89: safeHost := strings.ReplaceAll(zabbixHost, "/", "_")
safeHost(zabbixHost) == ReplaceAll(zabbixHost, "/", <<"_">>)

\* line 90: filepath.Join("/tmp", "waf_sender_last_run_" + safeHost + ".json");
\* safeHost has no separator left, so Join has nothing to clean
lastRunFile(zabbixHost) ==
    <<"/tmp/waf_sender_last_run_">> \o safeHost(zabbixHost) \o <<".json">>

\* ---------------------------------------------------------------- state
VARIABLES
    file,            \* content of w.lastRunFile
    now,             \* the clock, in ticks
    tz,              \* offset of the local zone, in seconds
    dataType,        \* w.dataType
    api,             \* the appliance's answers
    cachedSites,     \* w.cachedSites
    cachedDeviceID,  \* w.cachedDeviceID
    pc,              \* position in run() / in the function under study
    runs,            \* invocations finished
    ticks,           \* clock advances so far
    currentRunTime,  \* run(): currentRunTime
    deviceID,        \* collectAllData: deviceID
    timestamp,       \* collectAllData: timestamp
    siteIdx,         \* collectAllData: index of the next site of the loop
    data,            \* the batch collected so far
    sent,            \* outcome of sendToZabbix(data) in this run, "none" before
    sinkLog,         \* invocations of sendToZabbix in this run
    result,          \* what run() returned, "none" before
    file0,           \* content of the state file when this run started
    reads,           \* reads of the state file in this run
    writes,          \* os.WriteFile calls on the state file in this run
    calls,           \* API calls of this run
    loaded,          \* what getLastRunTime last returned
    via,             \* the layout it parsed with
    window,          \* the window last computed
    saved,           \* the last saveLastRunTime call: its time and outcome
    rApp, rOrig,     \* resolver under study: its arguments
    rOut,            \* resolver under study: the outcome of each call
    siteLog,         \* collectAllData: what each round of the site loop did
    encIn,           \* encoder under study: the batch handed to sendToZabbix
    encOut,          \* encoder under study: what sendToZabbix wrote
    probeOut,        \* traffic answer under study: what was made of it
    race,            \* two invocations at once: where each is and what it holds
    lastRun,         \* invocations in sequence: what the one before this one did
    targets          \* two target identities: their collectors and the files in /tmp

envVars == <<tz, dataType, api>>
runVars == <<pc, runs, ticks, currentRunTime, deviceID, timestamp, siteIdx, data,
             sent, sinkLog, result, file0, reads, writes, calls>>
trackerVars == <<loaded, via, window, saved>>
resolverVars == <<rApp, rOrig, rOut>>
encVars == <<encIn, encOut>>
vars == <<file, now, cachedSites, cachedDeviceID, envVars, runVars, trackerVars,
          resolverVars, siteLog, encVars, probeOut, race, lastRun, targets>>

NoWindow == [start |-> NilTime, end |-> NilTime,
             params |-> [timestamp__ge |-> 0, timestamp__lt |-> 0]]
NoSave == [t |-> NilTime, outcome |-> "none"]

\* ---------------------------------------------------- appliance answers
Ok(id) == [st |-> "SUCCESS", decodes |-> TRUE, id |-> id]
NameError == [st |-> "error", decodes |-> FALSE, id |-> ""]
NameBadData == [st |-> "SUCCESS", decodes |-> FALSE, id |-> ""]
Serial(sn) == [st |-> "SUCCESS", decodes |-> TRUE, serial |-> sn]
InfoError == [st |-> "error", decodes |-> FALSE, serial |-> ""]
Node(pk, ch) == [pk |-> pk, children |-> ch]
Leaf(pk) == Node(pk, <<>>)
TreeError == [st |-> "error", decodes |-> FALSE, roots |-> <<>>]
TreeBadData == [st |-> "SUCCESS", decodes |-> FALSE, roots |-> <<>>]
TreeOf(roots) == [st |-> "SUCCESS", decodes |-> TRUE, roots |-> roots]
Site(id, name, enabled, structID) ==
    [ID |-> id, Name |-> name, Enabled |-> enabled, StructID |-> structID]
SitesError == [st |-> "error", decodes |-> FALSE, result |-> <<>>]
SitesOf(ss) == [st |-> "SUCCESS", decodes |-> TRUE, result |-> ss]

NoTrees == [t \in {"reverse", "transparent", "traction", "sniffer", "bridge"} |-> TreeError]

\* one root, two areas; the second area's cluster has a child of its own
TwoAreaTree(c1, c2, c3) ==
    TreeOf(<<Node("root", <<Node("area1", <<Leaf(c1), Leaf(c2)>>),
                             Node("area2", <<Node(c3, <<Leaf("deep")>>)>>)>>)>>)

TreeChoices ==
    { [NoTrees EXCEPT !["reverse"] = TwoAreaTree("cl1", "cl2", "cl3")],
      [NoTrees EXCEPT !["reverse"] = TreeBadData,
                      !["transparent"] = TwoAreaTree("0", "cand", "cl1"),
                      !["bridge"] = TwoAreaTree("", "1", "cl2")],
      [NoTrees EXCEPT !["traction"] = TreeOf(<<>>),
                      !["sniffer"] = TwoAreaTree("st1", "cl2", "dev")] }

\* two raw records, the later one first; one field of each is the sentinel
RecordsTwo ==
    << [timestamp |-> [kind |-> "string", s |-> "time", n |-> 7],
        bytes_in_rate_avg |-> Num(5), conn_cur_max |-> Sentinel],
       [timestamp |-> [kind |-> "string", s |-> "time", n |-> 3],
        bytes_in_rate_avg |-> Sentinel, http_req_cnt_avg |-> Num(2)] >>

Api(name, info, tree, sites, valid, badKind) ==
    [name |-> name, info |-> info, tree |-> tree, sites |-> sites,
     valid |-> valid, badKind |-> badKind, records |-> RecordsTwo]

NoApi == Api(NameError, InfoError, NoTrees, SitesError, {}, "error")

\* ------------------------------------------------------- common start
Zones == {0, 8 * 3600, 0 - 5 * 3600}
DataTypes == {"mins", "hours", "days", "weeks"}

IdleRun ==
    /\ runs = 0 /\ ticks = 0 /\ currentRunTime = NilTime /\ deviceID = ""
    /\ timestamp = 0 /\ siteIdx = 0 /\ data = <<>> /\ sent = "none"
    /\ sinkLog = <<>> /\ result = "none" /\ reads = 0 /\ writes = 0
    /\ calls = <<>> /\ siteLog = <<>>

IdleTracker == loaded = NilTime /\ via = 0 /\ window = NoWindow /\ saved = NoSave

IdleResolver == rApp = "" /\ rOrig = "" /\ rOut = <<>>

NoOutput == [written |-> FALSE, file |-> <<>>, lines |-> <<>>]

IdleEncoder == encIn = <<>> /\ encOut = NoOutput

NoProbe == [step |-> "none", valid |-> FALSE, samples |-> <<>>, id |-> "", calls |-> <<>>]

Procs == {"a", "b"}

NoRace == [pc |-> [p \in Procs |-> "idle"], start |-> [p \in Procs |-> NilTime],
           loaded |-> [p \in Procs |-> NilTime],
           outcome |-> [p \in Procs |-> "none"], persisted |-> <<>>]

\* no collector constructed, nothing in /tmp
NoTargets == [host |-> [p \in Procs |-> <<>>], lastRunFile |-> [p \in Procs |-> <<>>],
              pc |-> [p \in Procs |-> "none"], read |-> [p \in Procs |-> <<>>],
              disk |-> <<>>]

IdleStudies == probeOut = NoProbe /\ race = NoRace /\ lastRun = <<>> /\ targets = NoTargets

\* ------------------------------------------- the tracker on its own
\* The clock of the tracker study: late enough for a state 31 days old.
TrackerEpoch == 40 * Day

\* ages of the persisted timestamp, in ticks; a negative age is a timestamp
\* in the future
Ages == {0 - Hour, 1, 5 * Minute, Day, Day + 1, 2 * Day, 7 * Day, 7 * Day + Second,
         10 * Day, 30 * Day, 31 * Day}

Shapes == {"rfc3339", "rfc3339frac", "isofrac", "iso", "space", "spacefrac", "garbage"}

\* the text of shape sh a process in zone z writes for instant t
TextFor(sh, t, z) ==
    IF sh = "garbage" THEN NoText
    ELSE [shape |-> sh, wall |-> (t \div SubSecond) + z,
          frac |-> IF sh \in {"rfc3339frac", "isofrac", "spacefrac"}
                   THEN t % SubSecond ELSE 0,
          off |-> IF sh \in {"rfc3339", "rfc3339frac"} THEN z ELSE 0]

InitTracker ==
    /\ now \in {TrackerEpoch, TrackerEpoch + 1}
    /\ tz \in Zones
    /\ dataType \in DataTypes
    /\ file \in {NoFile, UnreadableFile, BadJSONFile, TruncatedFile}
                \cup {StateFile(TextFor(sh, now - age, tz), dataType, ZabbixHost) :
                        sh \in Shapes, age \in Ages}
    /\ file0 = file
    /\ pc = "t_init"
    /\ api = NoApi /\ cachedSites = <<>> /\ cachedDeviceID = ""
    /\ IdleRun /\ IdleTracker /\ IdleResolver /\ IdleEncoder /\ IdleStudies

\* getLastRunTime()
T_Load ==
    /\ pc = "t_init"
    /\ loaded' = getLastRunTime(file)
    /\ via' = LoadedVia(file)
    /\ reads' = reads + 1
    /\ pc' = "t_loaded"
    /\ UNCHANGED <<file, now, cachedSites, cachedDeviceID, envVars, runs, ticks,
                   currentRunTime, deviceID, timestamp, siteIdx, data, sent, sinkLog,
                   result, file0, writes, calls, window, saved, resolverVars,
                   siteLog, encVars, probeOut, race, lastRun, targets>>

\* the window of getTrafficData for what was loaded
T_Window ==
    /\ pc = "t_loaded"
    /\ window' = QueryWindow(computeWindow(dataType, loaded, Time(now, tz)))
    /\ pc' = "t_window"
    /\ UNCHANGED <<file, now, cachedSites, cachedDeviceID, envVars, runs, ticks,
                   currentRunTime, deviceID, timestamp, siteIdx, data, sent, sinkLog,
                   result, file0, reads, writes, calls, loaded, via, saved,
                   resolverVars,
                   siteLog, encVars, probeOut, race, lastRun, targets>>

\* saveLastRunTime(now)
T_Save ==
    /\ pc = "t_window"
    /\ \E o \in WriteOutcomes :
          /\ file' = saveLastRunTime(file, Time(now, tz), dataType, ZabbixHost, o)
          /\ saved' = [t |-> Time(now, tz), outcome |-> o]
    /\ writes' = writes + 1
    /\ pc' = "t_saved"
    /\ UNCHANGED <<now, cachedSites, cachedDeviceID, envVars, runs, ticks,
                   currentRunTime, deviceID, timestamp, siteIdx, data, sent, sinkLog,
                   result, file0, reads, calls, loaded, via, window, resolverVars,
                   siteLog, encVars, probeOut, race, lastRun, targets>>

\* getLastRunTime() of what was just saved
T_Reload ==
    /\ pc = "t_saved"
    /\ loaded' = getLastRunTime(file)
    /\ via' = LoadedVia(file)
    /\ reads' = reads + 1
    /\ pc' = "t_reloaded"
    /\ UNCHANGED <<file, now, cachedSites, cachedDeviceID, envVars, runs, ticks,
                   currentRunTime, deviceID, timestamp, siteIdx, data, sent, sinkLog,
                   result, file0, writes, calls, window, saved, resolverVars,
                   siteLog, encVars, probeOut, race, lastRun, targets>>

NextTracker == T_Load \/ T_Window \/ T_Save \/ T_Reload

SpecTracker == InitTracker /\ [][NextTracker]_vars

\* ------------------------------------------ the resolver on its own
ResolveOrigs == {"", "0", "auto", "cand"}

ResolveSites ==
    { <<>> } \cup
    { <<Site("s1", "one", TRUE, st)>> : st \in {"", "0", "st1", "cand"} } \cup
    { <<Site("s2", "two", TRUE, "st2"), Site("s1", "one", TRUE, "st1")>> }

ResolveValid ==
    { {}, {"cand"}, {"st1"}, {"dev"}, {"cl2"}, {"ser"}, {"st1", "dev"},
      {"", "0", "auto", "cl3", "st2", "deep", "1"} }

ResolveApis ==
    { Api(n, i, t, SitesError, {<<"s1", d>> : d \in v}, b) :
        n \in {Ok("dev"), Ok(""), Ok("cand"), NameError},
        i \in {Serial("ser"), InfoError},
        t \in TreeChoices,
        v \in ResolveValid,
        b \in {"error", "sentinel"} }

InitResolve ==
    /\ rApp = "s1"
    /\ rOrig \in ResolveOrigs
    /\ cachedSites \in ResolveSites
    /\ cachedDeviceID \in {"", "dev"}
    /\ api \in ResolveApis
    /\ rOut = <<>>
    /\ pc = "r_init"
    /\ file = NoFile /\ file0 = NoFile /\ now = 0 /\ tz = 0 /\ dataType = "mins"
    /\ IdleRun /\ IdleTracker /\ IdleEncoder /\ IdleStudies

\* one call of findWorkingDeviceID(rApp, rOrig)
Resolve(from, to) ==
    /\ pc = from
    /\ LET r == findWorkingDeviceID(api, cachedSites, cachedDeviceID, rApp, rOrig)
       IN  /\ rOut' = Append(rOut, [id |-> r.id, calls |-> r.calls,
                                    before |-> cachedDeviceID, cache |-> r.cache])
           /\ cachedDeviceID' = r.cache
           /\ calls' = calls \o r.calls
    /\ pc' = to
    /\ UNCHANGED <<file, now, cachedSites, envVars, runs, ticks, currentRunTime,
                   deviceID, timestamp, siteIdx, data, sent, sinkLog, result, file0,
                   reads, writes, trackerVars, rApp, rOrig, siteLog, encVars, probeOut, race, lastRun, targets>>

R_First == Resolve("r_init", "r_once")

R_Second == Resolve("r_once", "r_twice")

NextResolve == R_First \/ R_Second

SpecResolve == InitResolve /\ [][NextResolve]_vars

\* ------------------------------------------------------------- run()
\* the clock when the first invocation starts
RunEpoch == 10 * Day

\* time between the end of one invocation and the start of the next
Gaps == {Minute, 2 * Day}

RunSites ==
    <<Site("s1", "one", TRUE, "st1"), Site("s2", "two", FALSE, "0"),
      Site("s3", "three", TRUE, "")>>

RunApis ==
    { Api(Ok("dev"), Serial("ser"), NoTrees, SitesOf(RunSites),
          {<<"s1", "st1">>, <<"s3", "dev">>}, "error"),
      Api(Ok("dev"), InfoError, NoTrees, SitesOf(RunSites), {<<"s1", "dev">>}, "sentinel"),
      Api(NameBadData, Serial("ser"), NoTrees, SitesOf(<<RunSites[2], RunSites[3]>>),
          {<<"s3", "ser">>}, "error"),
      Api(NameError, InfoError, NoTrees, SitesOf(RunSites), {}, "error"),
      Api(Ok("dev"), InfoError, NoTrees, SitesError, {}, "error"),
      Api(Ok("dev"), InfoError, NoTrees, SitesOf(<<>>), {}, "error") }

Init ==
    /\ now = RunEpoch
    /\ tz = 8 * 3600
    /\ dataType \in {"mins", "days"}
    /\ file \in {NoFile, StateFile(TextFor("rfc3339", now - 2 * Day, tz), dataType, ZabbixHost)}
    /\ file0 = file
    /\ api \in RunApis
    /\ cachedSites = <<>> /\ cachedDeviceID = ""
    /\ pc = "idle"
    /\ IdleRun /\ IdleTracker /\ IdleResolver /\ IdleEncoder /\ IdleStudies

\* NewWAFCollector and the first lines of run() (lines 79-102, 967-971)
Start ==
    /\ pc = "idle"
    /\ currentRunTime' = Time(now, tz)
    /\ cachedSites' = <<>> /\ cachedDeviceID' = ""
    /\ deviceID' = "" /\ timestamp' = 0 /\ siteIdx' = 0 /\ data' = <<>>
    /\ sent' = "none" /\ sinkLog' = <<>> /\ result' = "none"
    /\ file0' = file /\ reads' = 0 /\ writes' = 0 /\ calls' = <<>>
    /\ loaded' = NilTime /\ via' = 0 /\ window' = NoWindow /\ saved' = NoSave
    /\ siteLog' = <<>>
    /\ pc' = "collect"
    /\ UNCHANGED <<file, now, envVars, runs, ticks, resolverVars, encVars, probeOut, race, lastRun, targets>>

\* collectAllData carrying on with an empty primary id
primaryOrDefault_empty(id) == id

\* lines 634-638: the placeholder for a primary id that is not to be had
primaryOrDefault(id) == IF id = "" THEN "default" ELSE id

\* collectAllData reporting its status only
LivenessPoints_statusOnly(ts) == <<Point("waf.collector.status", "", Num(1), ts)>>

\* lines 649-665: the two liveness points
LivenessPoints(ts) ==
    << Point("waf.collector.status", "", Num(1), ts),
       Point("waf.collector.timestamp", "", Num(ts), ts) >>

\* collectAllData up to the site loop (lines 626-701)
CollectHead ==
    /\ pc = "collect"
    /\ LET g == getDeviceID(cachedDeviceID, api)
           dev == primaryOrDefault(g.id)
           sites == getSites(api)
           ts == Unix(now)
       IN  IF ~login(api)
           THEN /\ calls' = calls \o <<Call("name", "", "")>>
                /\ data' = <<>> /\ pc' = "send"
                /\ UNCHANGED <<cachedSites, cachedDeviceID, deviceID, timestamp, siteIdx>>
           ELSE /\ calls' = calls \o <<Call("name", "", "")>> \o g.calls
                                  \o <<Call("sites", "", "")>>
                /\ cachedDeviceID' = g.cache
                /\ deviceID' = dev
                /\ cachedSites' = sites
                /\ IF Len(sites) = 0
                   THEN /\ data' = <<>> /\ pc' = "send"
                        /\ UNCHANGED <<timestamp, siteIdx>>
                   ELSE /\ timestamp' = ts
                        /\ siteIdx' = 1
                        /\ data' = LivenessPoints(ts) \o
                                   <<discoveryPoint(discoveryData(sites, dev), ts)>>
                        /\ pc' = "sites"
    /\ UNCHANGED <<file, now, envVars, runs, ticks, currentRunTime, sent, sinkLog,
                   result, file0, reads, writes, trackerVars, resolverVars,
                   siteLog, encVars, probeOut, race, lastRun, targets>>

\* what one round of the site loop did: the site, the clock, the cache before,
\* the candidate handed to getTrafficData, the id it fetched with, the API
\* calls, the samples returned, the points appended and the time range asked
SiteRound(site, at, before, candidate, device, cs, samples, points, w) ==
    [site |-> site, at |-> at, before |-> before, candidate |-> candidate,
     device |-> device, calls |-> cs, samples |-> samples, points |-> points,
     window |-> w]

\* one round of the site loop of collectAllData (lines 704-828)
CollectSite ==
    /\ pc = "sites"
    /\ LET site == cachedSites[siteIdx]
           status == Point("waf.site.status", site.Name,
                           Num(IF site.Enabled THEN 1 ELSE 0), timestamp)
           g == getTrafficData(api, cachedSites, cachedDeviceID, file, dataType, tz,
                               now, site.ID, actualDeviceID(site, deviceID))
       IN  IF site.Enabled
           THEN /\ data' = data \o <<status>> \o AllSamplePoints(site, g.samples)
                /\ cachedDeviceID' = g.cache
                /\ calls' = calls \o g.calls
                /\ reads' = reads + 1
                /\ loaded' = g.loaded
                /\ via' = LoadedVia(file)
                /\ window' = g.window
                /\ siteLog' = Append(siteLog,
                       SiteRound(site, now, cachedDeviceID, actualDeviceID(site, deviceID),
                                 g.device, g.calls, g.samples,
                                 <<status>> \o AllSamplePoints(site, g.samples),
                                 g.window))
           ELSE /\ data' = data \o <<status>> \o ZeroPoints(site, timestamp)
                /\ siteLog' = Append(siteLog,
                       SiteRound(site, now, cachedDeviceID, "", "", <<>>, <<>>,
                                 <<status>> \o ZeroPoints(site, timestamp), NoWindow))
                /\ UNCHANGED <<cachedDeviceID, calls, reads, loaded, via, window>>
    /\ siteIdx' = siteIdx + 1
    /\ pc' = IF siteIdx = Len(cachedSites) THEN "send" ELSE "sites"
    /\ UNCHANGED <<file, now, cachedSites, envVars, runs, ticks, currentRunTime,
                   deviceID, timestamp, sent, sinkLog, result, file0, writes, saved,
                   resolverVars, encVars, probeOut, race, lastRun, targets>>

\* run(), lines 976-980 and 992: the batch goes to the sink if there is one
Send ==
    /\ pc = "send"
    /\ IF Len(data) > 0
       THEN \E o \in SinkOutcomes :
               /\ sent' = o
               /\ sinkLog' = Append(sinkLog, [what |-> "batch", n |-> Len(data), outcome |-> o])
               /\ pc' = RunBranch(data, sendToZabbix(data, o))
       ELSE /\ pc' = RunBranch(data, FALSE)
            /\ UNCHANGED <<sent, sinkLog>>
    /\ UNCHANGED <<file, now, cachedSites, cachedDeviceID, envVars, runs, ticks,
                   currentRunTime, deviceID, timestamp, siteIdx, data, result, file0,
                   reads, writes, calls, trackerVars, resolverVars,
                   siteLog, encVars, probeOut, race, lastRun, targets>>

\* run(), lines 981-984: saveLastRunTime(currentRunTime); return true
Save ==
    /\ pc = "save"
    /\ \E o \in WriteOutcomes :
          LET t == runTimeSaved(currentRunTime, Time(now, tz))
          IN  /\ file' = saveLastRunTime(file, t, dataType, ZabbixHost, o)
              /\ saved' = [t |-> t, outcome |-> o]
    /\ writes' = writes + 1
    /\ result' = "true"
    /\ pc' = "done"
    /\ UNCHANGED <<now, cachedSites, cachedDeviceID, envVars, runs, ticks,
                   currentRunTime, deviceID, timestamp, siteIdx, data, sent, sinkLog,
                   file0, reads, calls, loaded, via, window, resolverVars,
                   siteLog, encVars, probeOut, race, lastRun, targets>>

\* run(), lines 987-989 and 992-994: sendCollectorStatus(0); return false
Status ==
    /\ pc = "status"
    /\ \E o \in SinkOutcomes :
          sinkLog' = Append(sinkLog, [what |-> "status0", n |-> 1, outcome |-> o])
    /\ result' = "false"
    /\ pc' = "done"
    /\ UNCHANGED <<file, now, cachedSites, cachedDeviceID, envVars, runs, ticks,
                   currentRunTime, deviceID, timestamp, siteIdx, data, sent, file0,
                   reads, writes, calls, trackerVars, resolverVars,
                   siteLog, encVars, probeOut, race, lastRun, targets>>

\* the process has exited; the scheduler starts the next invocation later
NextRun ==
    /\ pc = "done"
    /\ runs + 1 < MaxRuns
    /\ runs' = runs + 1
    /\ \E gap \in Gaps : now' = now + gap
    /\ pc' = "idle"
    /\ UNCHANGED <<file, cachedSites, cachedDeviceID, envVars, ticks, currentRunTime,
                   deviceID, timestamp, siteIdx, data, sent, sinkLog, result, file0,
                   reads, writes, calls, trackerVars, resolverVars,
                   siteLog, encVars, probeOut, race, lastRun, targets>>

\* time passes while the run waits for the appliance or the sender
Tick ==
    /\ pc \in {"collect", "sites", "send"}
    /\ ticks < MaxTicks
    /\ ticks' = ticks + 1
    /\ now' = now + 1
    /\ UNCHANGED <<file, cachedSites, cachedDeviceID, envVars, pc, runs,
                   currentRunTime, deviceID, timestamp, siteIdx, data, sent, sinkLog,
                   result, file0, reads, writes, calls, trackerVars, resolverVars,
                   siteLog, encVars, probeOut, race, lastRun, targets>>

Next == Start \/ CollectHead \/ CollectSite \/ Send \/ Save \/ Status \/ NextRun \/ Tick

Spec == Init /\ [][Next]_vars

\* ------------------------------------- collectAllData on its own
\* appliances for the site loop: the ones of the run, one on which every
\* resolver strategy fails, and ones with a single record per answer
\* two sites that the appliance lists under one name
NamesakeSites == <<Site("s1", "one", TRUE, "st1"), Site("s4", "one", TRUE, "0")>>

CollectApis ==
    RunApis \cup
    { Api(Ok("dev"), Serial("ser"), NoTrees, SitesOf(NamesakeSites),
          {<<"s1", "st1">>, <<"s4", "dev">>}, "error") } \cup
    { Api(NameBadData, Serial("ser"),
          [NoTrees EXCEPT !["reverse"] = TwoAreaTree("cl1", "cl2", "cl3")],
          SitesOf(RunSites), {}, "error"),
      Api(Ok("dev"), Serial("ser"),
          [NoTrees EXCEPT !["sniffer"] = TwoAreaTree("cl1", "cl2", "cl3")],
          SitesOf(RunSites), {<<"s3", "dev">>}, "baddata"),
      Api(Ok("dev"), Serial("ser"), NoTrees, SitesOf(RunSites),
          {<<"s1", "ser">>, <<"s3", "dev">>}, "apicode") } \cup
    { [Api(Ok("dev"), Serial("ser"), NoTrees, SitesOf(RunSites), {<<"s1", "st1">>}, b)
          EXCEPT !.records = <<RecordsTwo[1]>>] : b \in {"empty", "sentinel"} }

InitCollect ==
    /\ now = RunEpoch
    /\ tz = 8 * 3600
    /\ dataType \in {"mins", "days"}
    /\ file \in {NoFile, StateFile(TextFor("rfc3339", now - 2 * Day, tz), dataType, ZabbixHost)}
    /\ file0 = file
    /\ api \in CollectApis
    /\ cachedSites = <<>> /\ cachedDeviceID = ""
    /\ pc = "idle"
    /\ IdleRun /\ IdleTracker /\ IdleResolver /\ IdleEncoder /\ IdleStudies

\* one call of collectAllData; the batch it returns is data at pc = "send"
NextCollect == Start \/ CollectHead \/ CollectSite \/ Tick

SpecCollect == InitCollect /\ [][NextCollect]_vars

\* ------------------------------------------- the encoder on its own
\* longest key, site name and string value tried, in pieces
MaxKeyLen == 2
MaxNameLen == 2
MaxValueLen == 3

\* every text of at most n pieces over an alphabet
Texts(alphabet, n) == UNION {[1..k -> alphabet] : k \in 0..n}

EncodeKeys ==
    (Texts({"k", Space, Bracket, Quote, Newline}, MaxKeyLen) \ {<<>>}) \cup
    {SiteKey("waf.site.status", name) :
        name \in Texts({"s", Space, Quote, Newline}, MaxNameLen)}

EncodeValues ==
    {StringValue(t) : t \in Texts({"v", Space, Quote, Backslash, Newline}, MaxValueLen)}
    \cup {IntValue(n) : n \in {0, 1, 10}}

\* items differing from a plain one in the key or in the value
EncodeItems ==
    {ZabbixData(ZabbixHost, k, IntValue(1), 7) : k \in EncodeKeys} \cup
    {ZabbixData(ZabbixHost, <<"waf.sites.discovery">>, v, 12) : v \in EncodeValues}

\* what follows the first item of a batch
EncodeTails ==
    { <<>>,
      <<ZabbixData(ZabbixHost, <<"waf.collector.status">>, IntValue(1), 7)>>,
      <<ZabbixData(ZabbixHost, SiteKey("conn_cur_avg", <<"one">>), IntValue(0), 7),
        ZabbixData(ZabbixHost, <<"k">>, StringValue(<<"v", Space, Backslash>>), 8)>> }

InitEncode ==
    /\ encIn \in {<<>>} \cup {<<item>> \o tail : item \in EncodeItems, tail \in EncodeTails}
    /\ encOut = NoOutput
    /\ pc = "e_init"
    /\ file = NoFile /\ file0 = NoFile /\ now = 0 /\ tz = 0 /\ dataType = "mins"
    /\ api = NoApi /\ cachedSites = <<>> /\ cachedDeviceID = ""
    /\ IdleRun /\ IdleTracker /\ IdleResolver /\ IdleStudies

\* sendToZabbix(encIn) (lines 834-951)
E_Send ==
    /\ pc = "e_init"
    /\ \E o \in SinkOutcomes :
          /\ encOut' = IF Len(encIn) = 0 \/ o = "tmpfail" THEN NoOutput
                       ELSE [written |-> TRUE, file |-> encodeBatch(encIn),
                             lines |-> [i \in DOMAIN encIn |-> encodeFields(encIn[i])]]
          /\ sent' = IF Len(encIn) = 0 THEN "none" ELSE o
          /\ result' = IF sendToZabbix(encIn, o) THEN "true" ELSE "false"
    /\ pc' = "e_done"
    /\ UNCHANGED <<file, now, cachedSites, cachedDeviceID, envVars, runs, ticks,
                   currentRunTime, deviceID, timestamp, siteIdx, data, sinkLog, file0,
                   reads, writes, calls, trackerVars, resolverVars, siteLog, encIn,
                   probeOut, race, lastRun, targets>>

NextEncode == E_Send

SpecEncode == InitEncode /\ [][NextEncode]_vars

\* ------------------------------------ one traffic answer on its own
\* most records in the answer under study
MaxRecords == 2

\* a raw record: a timestamp that parses (n seconds) or none; two of the
\* metric fields as a number, the sentinel, another string, or absent
Absent == [kind |-> "absent", s |-> "", n |-> 0]

ProbeField(name, v) == IF v.kind = "absent" THEN <<>> ELSE <<<<name, v>>>>

ProbeRecords(n) ==
    { LET fs == ProbeField("timestamp", ts) \o ProbeField("bytes_in_rate_avg", a)
                    \o ProbeField("conn_cur_max", b)
      IN  [k \in {fs[i][1] : i \in DOMAIN fs} |->
              fs[CHOOSE i \in DOMAIN fs : fs[i][1] = k][2]] :
        ts \in {Absent, [kind |-> "string", s |-> "time", n |-> 20 - 3 * n]},
        a \in {Absent, Sentinel, Num(5), Str("x")},
        b \in {Absent, Sentinel, Num(n)} }

\* the answers with exactly n records, the k-th drawn from ProbeRecords(k)
RECURSIVE ProbeResults(_)
ProbeResults(n) ==
    IF n = 0 THEN {<<>>}
    ELSE {Append(rs, r) : rs \in ProbeResults(n - 1), r \in ProbeRecords(n)}

\* the appliances answering the query under study with up to n records, or
\* failing it in each way
ProbeApis(n) ==
    { [Api(NameError, InfoError, NoTrees, SitesError, {<<"s1", "d">>}, "error")
          EXCEPT !.records = rs] : rs \in UNION {ProbeResults(m) : m \in 0..n} }
    \cup { Api(NameError, InfoError, NoTrees, SitesError, {}, b) :
             b \in {"error", "apicode", "baddata", "empty", "sentinel"} }

InitProbe ==
    /\ api \in ProbeApis(MaxRecords)
    /\ rApp = "s1" /\ rOrig = "d" /\ rOut = <<>>
    /\ now = RunEpoch /\ tz = 0 /\ dataType = "mins"
    /\ file = NoFile /\ file0 = NoFile
    /\ cachedSites = <<>> /\ cachedDeviceID = ""
    /\ pc = "p_init"
    /\ IdleRun /\ IdleTracker /\ IdleEncoder /\ IdleStudies

\* tryGetData(rApp, rOrig)
P_Try ==
    /\ pc = "p_init"
    /\ probeOut' = [probeOut EXCEPT !.step = "tried",
                                    !.valid = tryGetData(api, rApp, rOrig)]
    /\ calls' = Append(calls, Call("traffic", rApp, rOrig))
    /\ pc' = "p_tried"
    /\ UNCHANGED <<file, now, cachedSites, cachedDeviceID, envVars, runs, ticks,
                   currentRunTime, deviceID, timestamp, siteIdx, data, sent, sinkLog,
                   result, file0, reads, writes, trackerVars, resolverVars, siteLog,
                   encVars, race, lastRun, targets>>

\* findWorkingDeviceID(rApp, rOrig), whose first strategy is that probe
P_Resolve ==
    /\ pc = "p_tried"
    /\ LET r == findWorkingDeviceID(api, cachedSites, cachedDeviceID, rApp, rOrig)
       IN  /\ probeOut' = [probeOut EXCEPT !.step = "resolved", !.id = r.id,
                                          !.calls = r.calls]
           /\ cachedDeviceID' = r.cache
           /\ calls' = calls \o r.calls
    /\ pc' = "p_resolved"
    /\ UNCHANGED <<file, now, cachedSites, envVars, runs, ticks,
                   currentRunTime, deviceID, timestamp, siteIdx, data, sent, sinkLog,
                   result, file0, reads, writes, trackerVars, resolverVars, siteLog,
                   encVars, race, lastRun, targets>>

\* getTrafficData(rApp, rOrig)
P_Fetch ==
    /\ pc = "p_resolved"
    /\ LET g == getTrafficData(api, cachedSites, cachedDeviceID, file, dataType, tz,
                               now, rApp, rOrig)
       IN  /\ probeOut' = [probeOut EXCEPT !.step = "fetched", !.samples = g.samples]
           /\ cachedDeviceID' = g.cache
           /\ calls' = calls \o g.calls
           /\ loaded' = g.loaded
           /\ via' = LoadedVia(file)
           /\ window' = g.window
    /\ reads' = reads + 1
    /\ pc' = "p_fetched"
    /\ UNCHANGED <<file, now, cachedSites, envVars, runs, ticks,
                   currentRunTime, deviceID, timestamp, siteIdx, data, sent, sinkLog,
                   result, file0, writes, saved, resolverVars, siteLog, encVars, race, lastRun, targets>>

NextProbe == P_Try \/ P_Resolve \/ P_Fetch

SpecProbe == InitProbe /\ [][NextProbe]_vars

\* ------------------------------------- two invocations at the same time
\* Two processes started by the scheduler for the same target identity share
\* the state file.  Each is run(): it notes its start time, collects (reading
\* the state file), hands the batch to the sink and, if that delivered,
\* saves its start time.
InitRace ==
    /\ now = RunEpoch
    /\ tz = 8 * 3600
    /\ dataType = "mins"
    /\ file \in {NoFile, StateFile(TextFor("rfc3339", now - 2 * Day, tz), dataType, ZabbixHost)}
    /\ file0 = file
    /\ api = NoApi /\ cachedSites = <<>> /\ cachedDeviceID = ""
    /\ pc = "race"
    /\ IdleRun /\ IdleTracker /\ IdleResolver /\ IdleEncoder /\ IdleStudies

\* run(), line 971: currentRunTime := time.Now()
RaceStart(p) ==
    /\ race.pc[p] = "idle"
    /\ race' = [race EXCEPT !.pc[p] = "started", !.start[p] = Time(now, tz)]
    /\ UNCHANGED <<file, now, cachedSites, cachedDeviceID, envVars, runVars,
                   trackerVars, resolverVars, siteLog, encVars, probeOut, lastRun, targets>>

\* the collection: getLastRunTime() inside getTrafficData
RaceRead(p) ==
    /\ race.pc[p] = "started"
    /\ race' = [race EXCEPT !.pc[p] = "read", !.loaded[p] = getLastRunTime(file)]
    /\ reads' = reads + 1
    /\ UNCHANGED <<file, now, cachedSites, cachedDeviceID, envVars, pc, runs, ticks,
                   currentRunTime, deviceID, timestamp, siteIdx, data, sent, sinkLog,
                   result, file0, writes, calls, trackerVars, resolverVars, siteLog,
                   encVars, probeOut, lastRun, targets>>

\* run(), lines 976-989: the batch goes to the sink
RaceSend(p) ==
    /\ race.pc[p] = "read"
    /\ \E o \in SinkOutcomes :
          LET batch == <<Point("waf.collector.status", "", Num(1), Unix(race.start[p].t))>>
          IN  race' = [race EXCEPT !.pc[p] =
                          IF RunBranch(batch, sendToZabbix(batch, o)) = "save"
                          THEN "save" ELSE "done"]
    /\ UNCHANGED <<file, now, cachedSites, cachedDeviceID, envVars, runVars,
                   trackerVars, resolverVars, siteLog, encVars, probeOut, lastRun, targets>>

\* run(), line 983: saveLastRunTime(currentRunTime)
RaceSave(p) ==
    /\ race.pc[p] = "save"
    /\ \E o \in WriteOutcomes :
          LET t == runTimeSaved(race.start[p], Time(now, tz))
          IN  /\ file' = saveLastRunTime(file, t, dataType, ZabbixHost, o)
              /\ race' = [race EXCEPT !.pc[p] = "done", !.outcome[p] = o,
                                      !.persisted = IF o = "written"
                                                    THEN Append(@, getLastRunTime(file'))
                                                    ELSE @]
    /\ writes' = writes + 1
    /\ UNCHANGED <<now, cachedSites, cachedDeviceID, envVars, pc, runs, ticks,
                   currentRunTime, deviceID, timestamp, siteIdx, data, sent, sinkLog,
                   result, file0, reads, calls, trackerVars, resolverVars, siteLog,
                   encVars, probeOut, lastRun, targets>>

\* a second passes
RaceTick ==
    /\ ticks < MaxTicks
    /\ \E p \in Procs : race.pc[p] # "done"
    /\ ticks' = ticks + 1
    /\ now' = now + Second
    /\ UNCHANGED <<file, cachedSites, cachedDeviceID, envVars, pc, runs,
                   currentRunTime, deviceID, timestamp, siteIdx, data, sent, sinkLog,
                   result, file0, reads, writes, calls, trackerVars, resolverVars,
                   siteLog, encVars, probeOut, race, lastRun, targets>>

NextRace ==
    \/ \E p \in Procs : RaceStart(p) \/ RaceRead(p) \/ RaceSend(p) \/ RaceSave(p)
    \/ RaceTick

SpecRace == InitRace /\ [][NextRace]_vars

\* ---------------------------------------- invocations one after another
\* The scheduler starts run() again after the last invocation has exited; the
\* state file is all that one invocation leaves to the next.
\* appliances listing two enabled sites: one answering for both, one whose
\* traffic requests for the first site all fail
SeqSites == <<RunSites[1], RunSites[3]>>

SeqApis ==
    { Api(Ok("dev"), Serial("ser"), NoTrees, SitesOf(SeqSites),
          {<<"s1", "st1">>, <<"s3", "dev">>}, "error"),
      Api(Ok("dev"), InfoError, NoTrees, SitesOf(SeqSites), {<<"s3", "dev">>}, "error") }

\* the state file before the first invocation: none, one this program wrote
\* two days ago, or one in the zone-less layout written a minute ago
SeqFiles(t, zone, dt) ==
    { NoFile,
      StateFile(TextFor("rfc3339", t - 2 * Day, zone), dt, ZabbixHost),
      StateFile(TextFor("iso", t - Minute, zone), dt, ZabbixHost) }

InitSeq ==
    /\ now = RunEpoch
    /\ tz = 8 * 3600
    /\ dataType \in {"mins", "days"}
    /\ file \in SeqFiles(now, tz, dataType)
    /\ file0 = file
    /\ api \in SeqApis
    /\ cachedSites = <<>> /\ cachedDeviceID = ""
    /\ pc = "idle"
    /\ IdleRun /\ IdleTracker /\ IdleResolver /\ IdleEncoder /\ IdleStudies

\* what a finished invocation did: what run() returned, what became of the
\* save, and the site, device and time range of each round of its site loop
RunSummary ==
    [result |-> result, saved |-> saved.outcome,
     rounds |-> [i \in DOMAIN siteLog |->
                    [site |-> siteLog[i].site, device |-> siteLog[i].device,
                     window |-> siteLog[i].window]]]

\* the process has exited; the next invocation starts later
SeqNextRun ==
    /\ pc = "done"
    /\ runs + 1 < MaxRuns
    /\ runs' = runs + 1
    /\ \E gap \in Gaps : now' = now + gap
    /\ lastRun' = <<RunSummary>>
    /\ pc' = "idle"
    /\ UNCHANGED <<file, cachedSites, cachedDeviceID, envVars, ticks, currentRunTime,
                   deviceID, timestamp, siteIdx, data, sent, sinkLog, result, file0,
                   reads, writes, calls, trackerVars, resolverVars,
                   siteLog, encVars, probeOut, race, targets>>

\* time passes while the run waits for the appliance
SeqTick == pc \in {"collect", "sites"} /\ Tick

NextSeq ==
    Start \/ CollectHead \/ CollectSite \/ Send \/ Save \/ Status \/ SeqNextRun \/ SeqTick

SpecSeq == InitSeq /\ [][NextSeq]_vars

\* ------------------------------------------- two target identities
\* Two collectors, each constructed for its own target identity, save and
\* load their state on the same host.
\* longest identity tried, in characters
MaxHostLen == 2

\* the identities tried: texts of a letter, the slash and the underscore
Hosts == Texts({"w", "/", "_"}, MaxHostLen) \ {<<>>}

\* the files of /tmp as a sequence of [path, content] entries, one per path
DiskPaths(disk) == {disk[i].path : i \in DOMAIN disk}

\* os.ReadFile(path)
DiskRead(disk, path) ==
    IF path \in DiskPaths(disk)
    THEN disk[CHOOSE i \in DOMAIN disk : disk[i].path = path].content
    ELSE NoFile

\* os.WriteFile(path, content): the file is created or replaced
DiskWrite(disk, path, content) ==
    IF path \in DiskPaths(disk)
    THEN [i \in DOMAIN disk |->
             IF disk[i].path = path THEN [path |-> path, content |-> content] ELSE disk[i]]
    ELSE Append(disk, [path |-> path, content |-> content])

InitTargets ==
    /\ targets \in {[NoTargets EXCEPT !.host = [p \in Procs |-> IF p = "a" THEN ha ELSE hb]] :
                        ha \in Hosts, hb \in Hosts}
    /\ now = RunEpoch /\ tz = 8 * 3600 /\ dataType = "mins"
    /\ file = NoFile /\ file0 = NoFile
    /\ api = NoApi /\ cachedSites = <<>> /\ cachedDeviceID = ""
    /\ pc = "targets"
    /\ probeOut = NoProbe /\ race = NoRace /\ lastRun = <<>>
    /\ IdleRun /\ IdleTracker /\ IdleResolver /\ IdleEncoder

\* NewWAFCollector(..., zabbixHost, ...) (lines 79-102)
K_New(p) ==
    /\ targets.pc[p] = "none"
    /\ targets' = [targets EXCEPT !.pc[p] = "ready",
                                  !.lastRunFile[p] = lastRunFile(targets.host[p])]
    /\ UNCHANGED <<file, now, cachedSites, cachedDeviceID, envVars, runVars,
                   trackerVars, resolverVars, siteLog, encVars, probeOut, race, lastRun>>

\* getLastRunTime() of collector p (line 256: os.ReadFile(w.lastRunFile))
K_Load(p) ==
    /\ targets.pc[p] = "ready"
    /\ targets' = [targets EXCEPT !.pc[p] = "loaded",
                                  !.read[p] = <<DiskRead(targets.disk, targets.lastRunFile[p])>>]
    /\ UNCHANGED <<file, now, cachedSites, cachedDeviceID, envVars, runVars,
                   trackerVars, resolverVars, siteLog, encVars, probeOut, race, lastRun>>

\* saveLastRunTime(now) of collector p after a delivered batch
K_Save(p) ==
    /\ targets.pc[p] = "loaded"
    /\ targets' = [targets EXCEPT !.pc[p] = "saved",
                                  !.disk = DiskWrite(@, targets.lastRunFile[p],
                                               saveLastRunTime(DiskRead(@, targets.lastRunFile[p]),
                                                               Time(now, tz), dataType,
                                                               targets.host[p], "written"))]
    /\ UNCHANGED <<file, now, cachedSites, cachedDeviceID, envVars, runVars,
                   trackerVars, resolverVars, siteLog, encVars, probeOut, race, lastRun>>

\* a second passes
K_Tick ==
    /\ ticks < MaxTicks
    /\ \E p \in Procs : targets.pc[p] # "saved"
    /\ ticks' = ticks + 1
    /\ now' = now + Second
    /\ UNCHANGED <<file, cachedSites, cachedDeviceID, envVars, pc, runs,
                   currentRunTime, deviceID, timestamp, siteIdx, data, sent, sinkLog,
                   result, file0, reads, writes, calls, trackerVars, resolverVars,
                   siteLog, encVars, probeOut, race, lastRun, targets>>

NextTargets == (\E p \in Procs : K_New(p) \/ K_Load(p) \/ K_Save(p)) \/ K_Tick

SpecTargets == InitTargets /\ [][NextTargets]_vars

\* =========================================================== properties
InResolve == pc \in {"r_once", "r_twice"}

SinkFailures == {"tmpfail", "nosender", "exitfail"}

\* C1: the state file is written (os.WriteFile is called on it, or its
\* content changes) only by a run that is past a successful sendToZabbix of
\* its own collected batch; no other step of any run writes it.
C1_WrittenOnlyAfterDelivery ==
    [][(writes' > writes \/ file' # file) =>
          /\ pc = "save"
          /\ sent = "delivered"
          /\ Len(data) > 0
          /\ Len(sinkLog) = 1 /\ sinkLog[1].what = "batch"
          /\ sinkLog[1].outcome = "delivered"]_vars

C1_Witness ==
    /\ pc = "done" /\ writes = 1 /\ sent = "delivered" /\ file # file0

\* C2: when the delivery of the batch fails, the state file after run() is
\* what it was when run() started, whatever became of the status-0 push that
\* follows, and the next load gives the same lastRunTime.
C2_FailedDeliveryKeepsState ==
    (pc = "done" /\ sent \in SinkFailures) =>
        /\ file = file0
        /\ writes = 0
        /\ getLastRunTime(file) = getLastRunTime(file0)
        /\ result = "false"
        /\ Len(sinkLog) = 2 /\ sinkLog[2].what = "status0"

C2_Witness ==
    /\ pc = "done" /\ sent = "exitfail" /\ file0.st = "json"
    /\ Len(sinkLog) = 2 /\ sinkLog[2].outcome = "delivered"

C4_Ceiling ==
    CASE dataType = "mins"  -> 24 * 3600 * SubSecond
      [] dataType = "hours" -> 7 * 24 * 3600 * SubSecond
      [] dataType = "days"  -> 30 * 24 * 3600 * SubSecond
      [] OTHER              -> 24 * 3600 * SubSecond

\* C4: with a state loaded, the window ends now and starts at lastRunTime
\* unless that is more than the ceiling ago, and then at now - ceiling; it is
\* never longer than the ceiling.
C4_WindowClipped ==
    (pc = "t_window" /\ loaded.ok) =>
        /\ window.end.t = now
        /\ window.start.t = IF now - loaded.t <= C4_Ceiling
                            THEN loaded.t ELSE now - C4_Ceiling
        /\ window.end.t - window.start.t <= C4_Ceiling

C4_Witness ==
    /\ pc = "t_window" /\ dataType = "hours" /\ loaded.ok
    /\ now - loaded.t = 10 * 24 * 3600 * SubSecond
    /\ window.start.t = now - 7 * 24 * 3600 * SubSecond

\* the first window C5 states for the granularity in use
C5_InitialWindow ==
    CASE dataType = "mins"  -> 5 * 60 * SubSecond
      [] dataType = "hours" -> 2 * 3600 * SubSecond
      [] dataType = "days"  -> 2 * 24 * 3600 * SubSecond
      [] OTHER              -> 5 * 60 * SubSecond

\* C5: with no state loaded, the window is [now - initialWindow, now].
C5_ColdStartWindow ==
    (pc = "t_window" /\ ~loaded.ok) =>
        /\ window.end.t = now
        /\ window.start.t = now - C5_InitialWindow

C5_Witness ==
    /\ pc = "t_window" /\ ~loaded.ok /\ dataType = "days" /\ file.st = "absent"
    /\ window.start.t = now - 2 * 24 * 3600 * SubSecond

\* the layout C6 expects to win: offset-aware, fractional, whole-second,
\* space-separated, in that order
C6_Expected ==
    LET text == file.last_run_time
    IN  IF file.st # "json" THEN 0
        ELSE IF ParseOK("RFC3339", text) THEN 1
        ELSE IF ParseOK("T.frac", text) THEN 2
        ELSE IF ParseOK("T", text) THEN 3
        ELSE IF ParseOK("space", text) THEN 4
        ELSE 0

\* C6: loading gives none when the file is absent, unreadable, not JSON or
\* spells no accepted timestamp, and otherwise the value of the first of the
\* four layouts, in their fixed order, that parses.
C6_LoadFallsBackToNone ==
    (pc = "t_loaded") =>
        /\ Layouts = <<"RFC3339", "T.frac", "T", "space">>
        /\ via = C6_Expected
        /\ (C6_Expected = 0 => loaded = NilTime)
        /\ (C6_Expected # 0 =>
               loaded = ParseValue(Layouts[C6_Expected], file.last_run_time))

C6_Witness ==
    /\ pc = "t_loaded" /\ file.st = "json" /\ file.last_run_time.shape = "garbage"
    /\ loaded = NilTime

\* C7: a time saved and loaded again is parsed by the first layout and is the
\* same instant to the second.
C7_RoundTrip ==
    (pc = "t_reloaded" /\ saved.outcome = "written") =>
        /\ via = 1
        /\ loaded.ok
        /\ loaded.t \div SubSecond = saved.t.t \div SubSecond
        /\ loaded.t = (saved.t.t \div SubSecond) * SubSecond

C7_Witness ==
    /\ pc = "t_reloaded" /\ saved.outcome = "written" /\ via = 1
    /\ saved.t.t % SubSecond # 0 /\ tz # 0

\* the primary device identifier is at hand for the first call
C8_PrimaryAvailable ==
    \/ rOut[1].before # ""
    \/ api.name.st = "SUCCESS" /\ api.name.decodes /\ api.name.id # ""

C8_Primary == IF rOut[1].before # "" THEN rOut[1].before ELSE api.name.id

\* C8 as stated: a candidate among "", "0", "auto" is never probed.
C8_Original ==
    (InResolve /\ rOrig \in {"", "0", "auto"}) =>
        \A k \in 1..Len(rOut[1].calls) : rOut[1].calls[k].ep # "traffic"

\* C8, amended: for a candidate among "", "0", "auto", when the primary
\* device identifier is available, that identifier is returned and no probe
\* and no other request than the one for it is made.
C8_ShortCircuit ==
    (InResolve /\ rOrig \in {"", "0", "auto"} /\ C8_PrimaryAvailable) =>
        /\ rOut[1].id = C8_Primary
        /\ \A k \in 1..Len(rOut[1].calls) : rOut[1].calls[k].ep = "name"
        /\ Len(rOut[1].calls) <= 1

C8_Witness ==
    /\ InResolve /\ rOrig = "auto" /\ rOut[1].before = ""
    /\ rOut[1].id = "dev" /\ rOut[1].calls = <<Call("name", "", "")>>

\* the candidate was probed in the first call and the appliance had no valid
\* data for it
C9_CandidateProbeFailed ==
    /\ \E k \in 1..Len(rOut[1].calls) : rOut[1].calls[k] = Call("traffic", rApp, rOrig)
    /\ ~tryGetData(api, rApp, rOrig)

\* C9: when the probe of the candidate fails and the cached site has a
\* struct id that is not empty, not "0" and not the candidate, that struct id
\* is probed before any topology tree is fetched, and returned if it is valid.
C9_StructBeforeTopology ==
    (InResolve /\ C9_CandidateProbeFailed) =>
        \A i \in 1..Len(cachedSites) :
            (cachedSites[i].ID = rApp /\ cachedSites[i].StructID \notin {"", "0", rOrig}) =>
                /\ \E k \in 1..Len(rOut[1].calls) :
                      /\ rOut[1].calls[k] = Call("traffic", rApp, cachedSites[i].StructID)
                      /\ \A j \in 1..(k - 1) : rOut[1].calls[j].ep \notin {"tree", "info"}
                /\ (tryGetData(api, rApp, cachedSites[i].StructID)
                       => rOut[1].id = cachedSites[i].StructID)

C9_Witness ==
    /\ InResolve /\ rOrig = "cand" /\ rOut[1].id = "st1"
    /\ rOut[1].calls = <<Call("traffic", "s1", "cand"), Call("traffic", "s1", "st1")>>

\* C10: two calls with the same arguments against the same answers return
\* the same identifier.
C10_Idempotent ==
    (pc = "r_twice") => rOut[1].id = rOut[2].id

C10_Witness ==
    /\ pc = "r_twice" /\ rOut[1].before = "" /\ rOut[1].cache = "dev"
    /\ rOut[2].before = "dev" /\ rOut[1].calls # rOut[2].calls
    /\ rOut[1].id = rOut[2].id /\ rOut[1].id # rOrig

\* the rounds of the site loop logged so far, and where the loop is over
Rounds == DOMAIN siteLog

LoopOver == pc = "send"

\* the ids a round probed or fetched with
ProbedIDs(e) == {e.calls[i].dev : i \in {j \in DOMAIN e.calls : e.calls[j].ep = "traffic"}}

\* the primary device id was to be had when the round began
C11_PrimaryAvailable(e) ==
    e.before # "" \/ (doRequestOK(api.name) /\ api.name.decodes /\ api.name.id # "")

\* every strategy of the round's resolver failed: the placeholder short-circuit
\* did not apply and no id it could probe gives a valid record
C11_AllFailed(e) ==
    /\ e.site.Enabled
    /\ ~(isPlaceholderID(e.candidate) /\ C11_PrimaryAvailable(e))
    /\ \A d \in ProbedIDs(e) \cup {e.candidate, getDeviceSerial(api)} :
          ~tryGetData(api, e.site.ID, d)

\* C11: when every resolver strategy fails for a site (primary id of no use,
\* no probe with valid data, serial of no use), findWorkingDeviceID hands back
\* the candidate it was given, the round still ends with the traffic fetch
\* for that candidate, and getTrafficData returns samples, not an error.
C11_FallsBackToCandidate ==
    \A i \in Rounds :
        LET e == siteLog[i]
        IN  C11_AllFailed(e) =>
              /\ e.device = e.candidate
              /\ e.calls # <<>>
              /\ e.calls[Len(e.calls)] = Call("traffic", e.site.ID, e.candidate)
              /\ Call("info", "", "") \in {e.calls[k] : k \in DOMAIN e.calls}
              /\ e.samples # <<>>

C11_Witness ==
    \E i \in Rounds :
        /\ C11_AllFailed(siteLog[i])
        /\ siteLog[i].candidate = "st1"
        /\ getDeviceSerial(api) = "ser"
        /\ {"st1", "cl1", "cl2", "cl3", "ser"} \subseteq ProbedIDs(siteLog[i])

\* C12: the round of a disabled site makes no API request and reads no state;
\* it appends exactly the status point with value 0 and the ten metric points
\* with value 0, all with the clock of the run timestamp.
C12_DisabledSiteZeros ==
    [][(pc = "sites" /\ siteIdx' # siteIdx /\ ~cachedSites[siteIdx].Enabled) =>
          /\ calls' = calls
          /\ reads' = reads
          /\ Len(data') = Len(data) + 1 + Len(MetricKeys)
          /\ Len(MetricKeys) = 10
          /\ data'[Len(data) + 1] =
                Point("waf.site.status", cachedSites[siteIdx].Name, Num(0), timestamp)
          /\ \A k \in 1..Len(MetricKeys) :
                data'[Len(data) + 1 + k] =
                    Point(MetricKeys[k], cachedSites[siteIdx].Name, Num(0), timestamp)
          /\ SubSeq(data', 1, Len(data)) = data]_vars

C12_Witness ==
    \E i \in Rounds :
        /\ ~siteLog[i].site.Enabled
        /\ Unix(siteLog[i].at) # timestamp
        /\ calls # <<>>

\* the traffic query of the round gave no valid sample
C13_NoValidSample(e) == e.site.Enabled /\ ~tryGetData(api, e.site.ID, e.device)

\* C13: an enabled site whose traffic query yields no valid sample gets
\* exactly one synthetic sample, stamped with the clock at that moment and
\* zero in all ten metrics, hence its status point and exactly ten metric
\* points of value 0.
C13_SyntheticZeroSample ==
    \A i \in Rounds :
        LET e == siteLog[i]
        IN  C13_NoValidSample(e) =>
              /\ Len(e.samples) = 1
              /\ e.samples[1].Timestamp = Unix(e.at)
              /\ \A k \in 1..10 : e.samples[1].fields[k] = 0
              /\ Len(e.points) = 11
              /\ e.points[1] = Point("waf.site.status", e.site.Name, Num(1), timestamp)
              /\ \A k \in 1..10 :
                    e.points[k + 1] = Point(MetricKeys[k], e.site.Name, Num(0), Unix(e.at))

C13_Witness ==
    \E i \in Rounds :
        LET e == siteLog[i]
            resp == TrafficResponse(api, e.site.ID, e.device)
        IN  /\ C13_NoValidSample(e)
            /\ doRequestOK(resp) /\ resp.decodes /\ Len(resp.result) > 0
            /\ Unix(e.at) # timestamp

\* the traffic query of the round failed (request error or undecodable data)
C14_QueryFailed(e) ==
    /\ e.site.Enabled
    /\ LET resp == TrafficResponse(api, e.site.ID, e.device)
       IN  ~doRequestOK(resp) \/ ~resp.decodes

\* the appliance as it is, except that it answers the queries of site e with
\* valid data for device d
C14_Healed(e, d) == [api EXCEPT !.valid = @ \cup {<<e.site.ID, d>>}]

\* the points of every round of the site loop replayed against appliance a,
\* from round i on with device-id cache c, at the clock readings of the log
RECURSIVE C14_Replay(_, _, _)
C14_Replay(a, i, c) ==
    IF i > Len(siteLog) THEN <<>>
    ELSE LET e == siteLog[i]
             status == Point("waf.site.status", e.site.Name,
                             Num(IF e.site.Enabled THEN 1 ELSE 0), timestamp)
             g == getTrafficData(a, cachedSites, c, file0, dataType, tz, e.at,
                                 e.site.ID, actualDeviceID(e.site, deviceID))
         IN  IF e.site.Enabled
             THEN <<<<status>> \o AllSamplePoints(e.site, g.samples)>>
                      \o C14_Replay(a, i + 1, g.cache)
             ELSE <<<<status>> \o ZeroPoints(e.site, timestamp)>>
                      \o C14_Replay(a, i + 1, c)

\* C14: a site whose traffic query fails gets the single synthetic zero
\* sample, the loop goes on to the sites after it, and the points of every
\* other site are those of the run in which that query had not failed.
C14_FailureIsolated ==
    /\ LoopOver /\ data # <<>> => Len(siteLog) = Len(cachedSites)
    /\ \A i \in Rounds :
          LET e == siteLog[i]
          IN  C14_QueryFailed(e) =>
                /\ e.samples = <<ZeroSample(e.at)>>
                /\ Len(e.points) = 11
                /\ \A d \in ProbedIDs(e) :
                      LET other == C14_Replay(C14_Healed(e, d), 1, siteLog[1].before)
                      IN  \A j \in Rounds \ {i} : other[j] = siteLog[j].points

C14_Witness ==
    /\ LoopOver
    /\ \E i, j \in Rounds :
          /\ i < j
          /\ C14_QueryFailed(siteLog[i])
          /\ siteLog[j].site.Enabled
          /\ Len(siteLog[j].points) > 11
          /\ \E d \in ProbedIDs(siteLog[i]) :
                C14_Replay(C14_Healed(siteLog[i], d), 1, siteLog[1].before)[i]
                    # siteLog[i].points

\* k_i: the valid samples the appliance has for the round's query
C15_ValidSamples(e) ==
    LET resp == TrafficResponse(api, e.site.ID, e.device)
    IN  IF ~e.site.Enabled \/ ~doRequestOK(resp) \/ ~resp.decodes THEN 0
        ELSE Cardinality({r \in DOMAIN resp.result : RecordValid(resp.result[r])})

C15_Max(a, b) == IF a > b THEN a ELSE b

\* 10 * D + 10 * SUM max(1, k_i) over the rounds from i on
RECURSIVE C15_MetricPoints(_)
C15_MetricPoints(i) ==
    IF i > Len(siteLog) THEN 0
    ELSE (IF siteLog[i].site.Enabled
          THEN 10 * C15_Max(1, C15_ValidSamples(siteLog[i]))
          ELSE 10) + C15_MetricPoints(i + 1)

\* C15: a collection that got past the site listing holds 2 liveness points,
\* 1 discovery point, N status points, 10 zero points per disabled site and
\* 10 * max(1, k_i) points per enabled site.
C15_BatchSize ==
    (LoopOver /\ data # <<>>) =>
        Len(data) = 2 + 1 + Len(cachedSites) + C15_MetricPoints(1)

C15_Witness ==
    /\ LoopOver /\ file0 = NoFile /\ dataType = "mins"
    /\ Len(cachedSites) = 3
    /\ Cardinality({i \in Rounds : siteLog[i].site.Enabled}) = 2
    /\ \E i, j \in Rounds : /\ C15_ValidSamples(siteLog[i]) = 1
                            /\ siteLog[j].site.Enabled
                            /\ C15_ValidSamples(siteLog[j]) = 0
    /\ Len(data) = 36

\* the run has ended after a failed connectivity check
C16_LoginFailedRun == pc = "done" /\ ~doRequestOK(api.name)

\* C16 as stated: after a failed connectivity check nothing was collected and
\* the sink was not invoked at all during the run (zabbix_sender was not run,
\* for a batch or for anything else).
C16_Original ==
    C16_LoginFailedRun =>
        /\ data = <<>>
        /\ \A k \in DOMAIN sinkLog : sinkLog[k].outcome \notin {"exitfail", "delivered"}

\* C16: after a failed connectivity check nothing was collected, the only
\* request made was the check itself, no batch went to the sink, and the
\* sink was invoked once, for the collector.status = 0 point.
C16_AbortedRun ==
    C16_LoginFailedRun =>
        /\ data = <<>> /\ siteLog = <<>>
        /\ calls = <<Call("name", "", "")>>
        /\ sent = "none"
        /\ Len(sinkLog) = 1 /\ sinkLog[1].what = "status0" /\ sinkLog[1].n = 1
        /\ result = "false"

C16_Witness ==
    C16_LoginFailedRun /\ Len(sinkLog) = 1 /\ sinkLog[1].outcome = "delivered"

\* a step of the run-fatal kind failed: the connectivity check, or the site
\* listing (request error, undecodable, or empty)
C17_FatalFailure ==
    \/ ~doRequestOK(api.name)
    \/ ~doRequestOK(api.sites) \/ ~api.sites.decodes \/ Len(api.sites.result) = 0

\* C17: a run whose connectivity check or site listing fails collects
\* nothing, resolves and queries no site, returns false, leaves the state
\* file alone and pushes the collector.status = 0 point afterwards.
C17_RunFatal ==
    /\ (C17_FatalFailure /\ pc \notin {"idle", "collect"}) =>
          /\ data = <<>> /\ siteLog = <<>> /\ reads = 0
          /\ \A k \in DOMAIN calls : calls[k].ep \in {"name", "sites"}
          /\ file = file0 /\ writes = 0
          /\ sent = "none"
    /\ (C17_FatalFailure /\ pc = "done") =>
          /\ result = "false"
          /\ Len(sinkLog) = 1 /\ sinkLog[1].what = "status0"

C17_Witness ==
    /\ pc = "done" /\ doRequestOK(api.name) /\ Len(api.sites.result) = 0
    /\ api.sites.decodes /\ file0 # NoFile /\ result = "false"

\* sendToZabbix has written its file
Encoded == pc = "e_done" /\ encOut.written

\* C18: a key is written inside double quotes exactly when it contains a
\* space or '['; the quoted key is the key itself between the quotes, so
\* every "metric[site]" key is quoted.
C18_KeyQuoting ==
    Encoded =>
      \A i \in DOMAIN encIn :
        LET key == encIn[i].Key
            out == encOut.lines[i].key
            special == \E p \in DOMAIN key : key[p] \in {" ", "["}
        IN  /\ special => out = <<"\"">> \o key \o <<"\"">>
            /\ ~special => out = key
            /\ (Len(key) > 2 /\ key[2] = "[" /\ key[Len(key)] = "]")
                  => (out[1] = "\"" /\ out[Len(out)] = "\"")

C18_Witness ==
    /\ Encoded
    /\ encIn[1].Key = <<"waf.site.status", "[", "s", "\"", "]">>
    /\ \E i \in DOMAIN encIn : encOut.lines[i].key = encIn[i].Key

\* Reading a quoted text from after its opening quote: a backslash makes the
\* next character literal, the first quote not so escaped ends the text.
\* Gives the text read and what follows the closing quote; ok is FALSE when
\* no closing quote is found.
RECURSIVE C19_ReadQuoted(_)
C19_ReadQuoted(t) ==
    IF t = <<>> THEN [ok |-> FALSE, text |-> <<>>, rest |-> <<>>]
    ELSE IF Head(t) = "\"" THEN [ok |-> TRUE, text |-> <<>>, rest |-> Tail(t)]
    ELSE IF Head(t) = "\\" /\ Len(t) >= 2
         THEN LET r == C19_ReadQuoted(SubSeq(t, 3, Len(t)))
              IN  [r EXCEPT !.text = <<t[2]>> \o @]
         ELSE LET r == C19_ReadQuoted(Tail(t))
              IN  [r EXCEPT !.text = <<Head(t)>> \o @]

\* C19: a string value is written in double quotes exactly when it contains
\* a space, a double quote or a newline, otherwise as it is; reading the
\* quoted text back (backslash escapes undone) gives the value again, with
\* nothing left over.
C19_ValueRoundTrip ==
    Encoded =>
      \A i \in DOMAIN encIn :
        LET v == encIn[i].Value
            out == encOut.lines[i].value
            special == \E p \in DOMAIN v.text : v.text[p] \in {" ", "\"", "\n"}
        IN  v.kind = "string" =>
              /\ ~special => out = v.text
              /\ special =>
                    /\ out[1] = "\""
                    /\ C19_ReadQuoted(Tail(out)) = [ok |-> TRUE, text |-> v.text, rest |-> <<>>]

C19_Witness ==
    /\ Encoded
    /\ encIn[1].Value = StringValue(<<"\\", "\"", "\\">>)
    /\ Len(encOut.lines[1].value) = 8

\* the number of newline characters of a text
RECURSIVE C20_Newlines(_)
C20_Newlines(t) ==
    IF t = <<>> THEN 0
    ELSE (IF Head(t) = "\n" THEN 1 ELSE 0) + C20_Newlines(Tail(t))

\* the lines of a text, each without its terminating newline
RECURSIVE C20_Lines(_, _)
C20_Lines(t, cur) ==
    IF t = <<>> THEN (IF cur = <<>> THEN <<>> ELSE <<cur>>)
    ELSE IF Head(t) = "\n" THEN <<cur>> \o C20_Lines(Tail(t), <<>>)
    ELSE C20_Lines(Tail(t), Append(cur, Head(t)))

\* C20 as stated: the file of a batch of n points has exactly n newline
\* characters and its i-th line is "<host> <key> <clock> <value>" of point i.
C20_OneLinePerPoint ==
    Encoded =>
      /\ C20_Newlines(encOut.file) = Len(encIn)
      /\ LET lines == C20_Lines(encOut.file, <<>>)
         IN  /\ Len(lines) = Len(encIn)
             /\ \A i \in DOMAIN encIn :
                   LET f == encOut.lines[i]
                   IN  lines[i] = f.host \o <<" ">> \o f.key \o <<" ">> \o f.clock
                                      \o <<" ">> \o f.value

\* how the process ends once run() has returned
C21_Exit == mainExit(result = "true")

\* C21: the process exits 0 and prints 0 exactly when the collection was not
\* empty and the sink delivered it, and exits 1 and prints 1 otherwise; an
\* exit of 1 always comes with a failed connectivity check, no site listed,
\* or a batch the sink did not deliver.
C21_ExitCode ==
    pc = "done" =>
      /\ C21_Exit \in {[code |-> 0, stdout |-> "0"], [code |-> 1, stdout |-> "1"]}
      /\ C21_Exit.code = 0 <=> (data # <<>> /\ sent = "delivered")
      /\ C21_Exit.code = 1 =>
            \/ ~doRequestOK(api.name)
            \/ ~doRequestOK(api.sites) \/ ~api.sites.decodes \/ api.sites.result = <<>>
            \/ sent \in {"tmpfail", "nosender", "exitfail"}

\* a run that exits 0 although the device-id answer did not decode, probes
\* met request errors and the state file could not be written
C21_Witness ==
    /\ pc = "done" /\ C21_Exit.code = 0
    /\ ~api.name.decodes
    /\ \E k \in DOMAIN calls :
          /\ calls[k].ep = "traffic"
          /\ ~doRequestOK(TrafficResponse(api, calls[k].app, calls[k].dev))
    /\ saved.outcome = "writefail"

\* C22 as stated: by the end of an invocation that collected a batch the
\* state file has been read exactly once, whatever the number of enabled
\* sites, and written at most once.
C22_ReadOnce ==
    (pc = "done" /\ data # <<>>) => (reads = 1 /\ writes <= 1)

\* C23: nothing orders the saves of two invocations: a save that succeeds
\* puts the saver's own start time in the file, whatever the file held, so
\* the file can end with the start time of the run that started first after
\* the later start time had been persisted (C23_Witness).
C23_SaveOverwrites ==
    [][\A p \in Procs :
          (race.pc[p] = "save" /\ race'.pc[p] = "done" /\ race'.outcome[p] = "written")
          => /\ file' = StateFile(FormatRFC3339(race.start[p]), dataType, ZabbixHost)
             /\ getLastRunTime(file').t = (race.start[p].t \div SubSecond) * SubSecond]_vars

C23_Witness ==
    \E p, q \in Procs :
        /\ race.pc[p] = "done" /\ race.pc[q] = "done"
        /\ race.start[p].t < race.start[q].t
        /\ Len(race.persisted) = 2
        /\ race.persisted[1].t = race.start[q].t
        /\ race.persisted[2].t = race.start[p].t
        /\ getLastRunTime(file).t = race.start[p].t
        /\ race.loaded[p] = race.loaded[q]

\* the timestamps of the valid records the appliance has for the round's
\* query; the records of this model all carry a timestamp that parses
C24_RecordClocks(e) ==
    LET resp == TrafficResponse(api, e.site.ID, e.device)
    IN  IF ~doRequestOK(resp) \/ ~resp.decodes THEN {}
        ELSE {resp.result[r]["timestamp"].n :
                 r \in {x \in DOMAIN resp.result :
                           /\ RecordValid(resp.result[x])
                           /\ resp.result[x]["timestamp"].s = "time"}}

\* C24: for an enabled site with valid samples, every sample gives exactly
\* ten metric points, one per metric, all with the clock of that sample,
\* which is the timestamp of its record and not the clock of the run;
\* samples of different records keep their different clocks.
C24_SampleClocks ==
    \A i \in Rounds :
        LET e == siteLog[i]
        IN  (e.site.Enabled /\ C24_RecordClocks(e) # {}) =>
              /\ Len(e.points) = 1 + 10 * Len(e.samples)
              /\ {e.samples[n].Timestamp : n \in DOMAIN e.samples} = C24_RecordClocks(e)
              /\ Len(e.samples) = Cardinality(C24_RecordClocks(e))
              /\ \A n \in DOMAIN e.samples : \A k \in 1..10 :
                    LET pt == e.points[1 + 10 * (n - 1) + k]
                    IN  /\ pt.clock = e.samples[n].Timestamp
                        /\ pt.metric = MetricKeys[k]
                        /\ pt.site = e.site.Name

C24_Witness ==
    \E i \in Rounds :
        LET e == siteLog[i]
        IN  /\ e.site.Enabled
            /\ C24_RecordClocks(e) = {3, 7}
            /\ Len(e.points) = 21
            /\ e.points[2].clock = 3 /\ e.points[12].clock = 7
            /\ Unix(e.at) \notin {3, 7} /\ timestamp \notin {3, 7}

\* positions of the calls of one kind in a call sequence
C25_At(cs, ep) == {k \in DOMAIN cs : cs[k].ep = ep}

C25_IsTraffic(c) == c.ep = "traffic"
C25_IsTree(c) == c.ep = "tree"

\* s is a prefix of t
C25_Prefix(s, t) == Len(s) <= Len(t) /\ \A k \in DOMAIN s : s[k] = t[k]

\* the ids probed before the topology walk begins
C25_EarlyProbes(cs) ==
    LET trees == C25_At(cs, "tree")
        stop == IF trees = {} THEN Len(cs) + 1
                ELSE CHOOSE k \in trees : \A j \in trees : k <= j
        early == SelectSeq(SubSeq(cs, 1, stop - 1), C25_IsTraffic)
    IN  [k \in DOMAIN early |-> early[k].dev]

\* the struct id of the site under study, if it is worth a probe
C25_StructID ==
    LET hits == {k \in DOMAIN cachedSites :
                    /\ cachedSites[k].ID = rApp
                    /\ cachedSites[k].StructID \notin {"", "0", rOrig}}
    IN  IF hits = {} THEN <<>>
        ELSE <<cachedSites[CHOOSE k \in hits : \A j \in hits : k <= j].StructID>>

\* the primary device id, if there is one worth a probe
C25_PrimaryID(r) ==
    LET id == IF r.before # "" THEN r.before
              ELSE IF doRequestOK(api.name) /\ api.name.decodes THEN api.name.id ELSE ""
    IN  IF id \in {"", rOrig} THEN <<>> ELSE <<id>>

\* C25: the calls of findWorkingDeviceID follow the order candidate probe,
\* struct-id probe, primary-id probe, the trees of reverse, transparent,
\* traction, sniffer, bridge in that order, serial fetch, serial probe; a
\* valid probe is the last call made and its id is the one returned; the
\* serial is fetched only after all five trees.
C25_StrategyOrder ==
    InResolve =>
      \A n \in DOMAIN rOut :
        LET r == rOut[n]
            cs == r.calls
            trees == SelectSeq(cs, C25_IsTree)
            info == C25_At(cs, "info")
        IN  C25_At(cs, "traffic") # {} =>
              /\ \A k \in C25_At(cs, "traffic") :
                    tryGetData(api, cs[k].app, cs[k].dev)
                        => (k = Len(cs) /\ r.id = cs[k].dev)
              /\ C25_Prefix(C25_EarlyProbes(cs),
                            <<rOrig>> \o C25_StructID \o C25_PrimaryID(r))
              /\ C25_Prefix([k \in DOMAIN trees |-> trees[k].dev],
                            <<"reverse", "transparent", "traction", "sniffer", "bridge">>)
              /\ Cardinality(info) <= 1
              /\ \A k \in info :
                    /\ Len(trees) = 5
                    /\ \A j \in C25_At(cs, "tree") : j < k
                    /\ \A j \in C25_At(cs, "traffic") :
                          j > k => (j = k + 1 /\ j = Len(cs) /\ cs[j].dev = api.info.serial)
              /\ (info = {} /\ C25_At(cs, "tree") # {}) =>
                    tryGetData(api, cs[Len(cs)].app, cs[Len(cs)].dev)

C25_Witness ==
    /\ InResolve
    /\ LET cs == rOut[1].calls
       IN  /\ C25_EarlyProbes(cs) = <<"cand", "st1", "dev">>
           /\ Cardinality(C25_At(cs, "tree")) = 5
           /\ cs[Len(cs)] = Call("traffic", "s1", "ser")
           /\ rOut[1].id = "ser"

\* the identifiers exactly three levels down the roots of a tree answer
C26_Depth3(resp) ==
    UNION {UNION {{resp.roots[i].children[j].children[k].pk :
                      k \in DOMAIN resp.roots[i].children[j].children} :
                  j \in DOMAIN resp.roots[i].children} :
           i \in DOMAIN resp.roots}

\* a tree answer the walk can use
C26_TreeOK(resp) == resp.st = "SUCCESS" /\ resp.decodes

\* the positions of the probes that follow the tree call at position t
\* before the next tree or serial request
RECURSIVE C26_Segment(_, _)
C26_Segment(cs, t) ==
    IF t + 1 > Len(cs) \/ cs[t + 1].ep # "traffic" THEN {}
    ELSE {t + 1} \cup C26_Segment(cs, t + 1)

\* C26: after the tree of a category is fetched, the ids probed are cluster
\* ids exactly three levels down that tree, none of them empty, "0", "1" or
\* the candidate, and all of those unless one was valid; a category whose
\* tree request or decoding failed gets no probe and is followed by the next
\* category (the serial fetch after the last).
C26_TopologyWalk ==
    InResolve =>
      \A n \in DOMAIN rOut :
        LET cs == rOut[n].calls
        IN  \A t \in C25_At(cs, "tree") :
              LET resp == api.tree[cs[t].dev]
                  seg == C26_Segment(cs, t)
                  ids == {cs[k].dev : k \in seg}
                  usable == C26_Depth3(resp) \ {"", "0", "1", rOrig}
              IN  /\ ~C26_TreeOK(resp) =>
                        /\ seg = {}
                        /\ t < Len(cs) /\ cs[t + 1].ep \in {"tree", "info"}
                  /\ C26_TreeOK(resp) =>
                        /\ ids \subseteq usable
                        /\ (\A k \in seg : ~tryGetData(api, cs[k].app, cs[k].dev))
                              => ids = usable

C26_Witness ==
    /\ InResolve /\ rOrig = "cand"
    /\ LET cs == rOut[1].calls
       IN  \E t, u \in C25_At(cs, "tree") :
              /\ cs[t].dev = "reverse" /\ ~api.tree["reverse"].decodes
              /\ cs[t + 1] = Call("tree", "", "transparent")
              /\ {cs[k].dev : k \in C26_Segment(cs, t + 1)} = {"cl1"}
              /\ cs[u].dev = "bridge"
              /\ C26_Depth3(api.tree["bridge"]) = {"", "1", "cl2"}
              /\ {cs[k].dev : k \in C26_Segment(cs, u)} = {"cl2"}

\* the traffic answer under study
C27_Answer == TrafficResponse(api, rApp, rOrig)

\* a record with some field other than timestamp that is not the string "-"
C27_HasData(rec) ==
    \E k \in DOMAIN rec \ {"timestamp"} : ~(rec[k].kind = "string" /\ rec[k].s = "-")

\* the request succeeded, the answer decodes and one of its records has data
C27_Expected ==
    /\ C27_Answer.st = "SUCCESS"
    /\ C27_Answer.decodes
    /\ \E i \in DOMAIN C27_Answer.result : C27_HasData(C27_Answer.result[i])

\* C27: tryGetData is true exactly when the request succeeds, the answer
\* decodes and a record has a non-timestamp field that is not "-"; when it
\* is false for the candidate, findWorkingDeviceID goes on to its next
\* requests and still returns an id.
C27_ProbeValidity ==
    /\ pc \in {"p_tried", "p_resolved", "p_fetched"} => (probeOut.valid <=> C27_Expected)
    /\ pc \in {"p_resolved", "p_fetched"} =>
          /\ probeOut.calls[1] = Call("traffic", rApp, rOrig)
          /\ C27_Expected => (probeOut.calls = <<Call("traffic", rApp, rOrig)>>
                              /\ probeOut.id = rOrig)
          /\ ~C27_Expected => (Len(probeOut.calls) > 1 /\ probeOut.calls[2].ep = "name"
                               /\ probeOut.id = rOrig)

C27_Witness ==
    /\ pc = "p_resolved" /\ ~probeOut.valid
    /\ C27_Answer.st = "SUCCESS" /\ C27_Answer.decodes
    /\ Len(C27_Answer.result) = 2
    /\ "timestamp" \in DOMAIN C27_Answer.result[1]
    /\ DOMAIN C27_Answer.result[2] = {"bytes_in_rate_avg", "conn_cur_max"}
    /\ Len(probeOut.calls) > 1

\* the ten metric values the claim gives a record
C28_Fields(rec) ==
    [k \in 1..10 |->
        IF MetricKeys[k] \in DOMAIN rec /\ rec[MetricKeys[k]].kind = "number"
        THEN rec[MetricKeys[k]].n ELSE 0]

C29_NoPrimaryID ==
    /\ doRequestOK(api.name)
    /\ ~api.name.decodes \/ api.name.id = ""

\* the sites the appliance lists
C29_Sites == IF doRequestOK(api.sites) /\ api.sites.decodes THEN api.sites.result ELSE <<>>

\* C29: when the connectivity check passes and the primary device id is not
\* to be had, "default" stands for it; the sites are listed and, if there
\* are any, the liveness and discovery points are emitted and every site
\* gets its round and its status point.
C29_DefaultDeviceID ==
    (C29_NoPrimaryID /\ pc \in {"sites", "send"}) =>
        /\ cachedSites = C29_Sites
        /\ Call("sites", "", "") \in {calls[k] : k \in DOMAIN calls}
        /\ C29_Sites # <<>> =>
              /\ deviceID = "default"
              /\ Len(data) >= 3
              /\ data[1].metric = "waf.collector.status" /\ data[1].value = Num(1)
              /\ data[2].metric = "waf.collector.timestamp"
              /\ data[3].metric = "waf.sites.discovery"
              /\ Len(data[3].value.records) = Len(C29_Sites)
              /\ \A i \in DOMAIN C29_Sites :
                    C29_Sites[i].StructID \in {"", "0"}
                        => data[3].value.records[i].DEVICE_ID = "default"
              /\ \A i \in Rounds :
                    /\ siteLog[i].site = C29_Sites[i]
                    /\ siteLog[i].points[1].metric = "waf.site.status"
                    /\ \E k \in DOMAIN data : data[k] = siteLog[i].points[1]
                    /\ (siteLog[i].site.Enabled /\ siteLog[i].site.StructID = "0")
                          => siteLog[i].candidate = "default"
              /\ pc = "send" => Len(siteLog) = Len(C29_Sites)

C29_Witness ==
    /\ C29_NoPrimaryID /\ pc = "send" /\ deviceID = "default"
    /\ Len(siteLog) = 3
    /\ \E i \in Rounds : siteLog[i].site.Enabled /\ Len(siteLog[i].calls) > 1

\* C30: a collection that got past the site listing has the two liveness
\* points first in its batch, collector.status = 1 and collector.timestamp =
\* the run timestamp, both with the run timestamp as clock, and no other
\* point of either key, whatever happened to the sites.
C30_LivenessFirst ==
    /\ (pc \in {"sites", "send"} /\ cachedSites # <<>>) => Len(data) >= 2
    /\ data # <<>> =>
          /\ data[1] = Point("waf.collector.status", "", Num(1), timestamp)
          /\ data[2] = Point("waf.collector.timestamp", "", Num(timestamp), timestamp)
          /\ \A k \in DOMAIN data :
                data[k].metric \in {"waf.collector.status", "waf.collector.timestamp"}
                    => k \in {1, 2}

C30_Witness ==
    /\ pc = "send" /\ Len(data) > 2
    /\ Unix(now) # timestamp
    /\ \E i \in Rounds : C14_QueryFailed(siteLog[i])
    /\ \E i \in Rounds : ~siteLog[i].site.Enabled

\* the run got past the connectivity check, the device id and the site listing
C31_PastListing == pc \in {"sites", "send"} /\ login(api) /\ getSites(api) # <<>>

\* where the discovery points of the batch are
C31_Discovery == {k \in DOMAIN data : data[k].metric = "waf.sites.discovery"}

\* the top-level JSON type of a discovery payload
C31_TopLevel(v) == IF v.kind = "json" /\ v.wrapper = "" THEN "array" ELSE "object"

\* one record per listed site, in listing order
C31_RecordsMatch(v) ==
    /\ Len(v.records) = Len(api.sites.result)
    /\ \A i \in DOMAIN v.records :
          /\ v.records[i].SITE_ID = api.sites.result[i].ID
          /\ v.records[i].SITE_NAME = api.sites.result[i].Name
          /\ v.records[i].SITE_ENABLE = (IF api.sites.result[i].Enabled THEN "1" ELSE "0")

\* C31 as stated: a run past the site listing has exactly one discovery
\* point, with one record per listed site in listing order, and its payload
\* is a JSON array of the records.
C31_Original ==
    C31_PastListing =>
        /\ Cardinality(C31_Discovery) = 1
        /\ \A k \in C31_Discovery :
              /\ C31_RecordsMatch(data[k].value)
              /\ C31_TopLevel(data[k].value) = "array"

\* C31, amended: a run past the site listing has exactly one discovery point,
\* the third of the batch, with the run timestamp as clock; its payload is a
\* JSON object whose member "data" is the array of one record per listed
\* site, enabled or not, in listing order.
C31_OneDiscoveryPoint ==
    C31_PastListing =>
        /\ C31_Discovery = {3}
        /\ data[3].site = "" /\ data[3].clock = timestamp
        /\ C31_RecordsMatch(data[3].value)
        /\ data[3].value.kind = "json" /\ data[3].value.wrapper = "data"

C31_Witness ==
    /\ C31_PastListing /\ pc = "send"
    /\ Len(data[3].value.records) = 3
    /\ data[3].value.records[2].SITE_ENABLE = "0"
    /\ data[3].value.records[1].SITE_ENABLE = "1"
    /\ Len(data) > 30

\* the primary device id the appliance gives, "" when the request fails, the
\* answer does not decode or the id is empty
C32_PrimaryID ==
    IF doRequestOK(api.name) /\ api.name.decodes THEN api.name.id ELSE ""

\* the requests for the primary device id in a call sequence
C32_Asked(cs) == Cardinality(C25_At(cs, "name"))

\* the cache as the round i left it
C32_After(i) == IF i < Len(siteLog) THEN siteLog[i + 1].before ELSE cachedDeviceID

\* C32: once getDeviceID has obtained a non-empty id, the id is cached: the
\* run asks for it once (after the connectivity check, which uses the same
\* endpoint), no round of the site loop asks again, the cache never changes
\* and a placeholder candidate resolves to the cached id without a request.
\* An empty or failed result is not cached: every later getDeviceID call of
\* the resolver sends the request again.
C32_CachedDeviceID ==
    pc \in {"sites", "send"} =>
        /\ cachedDeviceID = C32_PrimaryID
        /\ C32_PrimaryID # "" =>
              /\ C32_Asked(calls) = 2
              /\ calls[1].ep = "name" /\ calls[2].ep = "name"
              /\ \A i \in Rounds :
                    LET e == siteLog[i]
                    IN  /\ e.before = C32_PrimaryID /\ C32_After(i) = C32_PrimaryID
                        /\ C32_Asked(e.calls) = 0
                        /\ (e.site.Enabled /\ isPlaceholderID(e.candidate)) =>
                              (e.device = C32_PrimaryID
                               /\ e.calls = <<Call("traffic", e.site.ID, C32_PrimaryID)>>)
        /\ C32_PrimaryID = "" =>
              \A i \in Rounds :
                    LET e == siteLog[i]
                    IN  /\ e.before = "" /\ C32_After(i) = ""
                        /\ (e.site.Enabled /\ isPlaceholderID(e.candidate)) =>
                              (C32_Asked(e.calls) >= 1 /\ e.calls[1].ep = "name")
                        /\ (e.site.Enabled /\ C25_At(e.calls, "tree") # {}) =>
                              C32_Asked(e.calls) =
                                  (IF isPlaceholderID(e.candidate) THEN 2 ELSE 1)

\* a run in which the cached id serves one round as the authoritative id
\* and another as the id of the resolver's primary-id probe
C32_Witness ==
    /\ pc = "send" /\ C32_PrimaryID = "dev"
    /\ \E i, j \in Rounds :
          /\ i # j
          /\ siteLog[i].device = "dev" /\ isPlaceholderID(siteLog[i].candidate)
          /\ Len(siteLog[j].calls) > 2 /\ C32_Asked(siteLog[j].calls) = 0
          /\ Call("traffic", siteLog[j].site.ID, "dev")
                 \in {siteLog[j].calls[k] : k \in DOMAIN siteLog[j].calls}

\* a run in which the id is not to be had and one round asks for it twice
C32_Uncached ==
    /\ pc = "send" /\ C32_PrimaryID = ""
    /\ \E i \in Rounds : C32_Asked(siteLog[i].calls) = 2

\* the rounds of the run under way (the log is emptied when a run starts)
ThisRun == IF pc = "idle" THEN {} ELSE Rounds

\* the traffic request of a round (of this run or of the one before) failed
C33_Failed(r) ==
    /\ r.site.Enabled
    /\ LET resp == TrafficResponse(api, r.site.ID, r.device)
       IN  ~doRequestOK(resp) \/ ~resp.decodes

\* C33 as stated: a run that advances lastRunTime had the traffic query of
\* every enabled site succeed; and a site whose traffic query failed in the
\* run before gets a window that starts at or before the start of the failed
\* window.
C33_NoWindowLost ==
    /\ (pc = "done" /\ saved.outcome = "written" /\ file # file0) =>
          \A i \in Rounds : ~C33_Failed(siteLog[i])
    /\ \A p \in DOMAIN lastRun : \A k \in DOMAIN lastRun[p].rounds : \A i \in ThisRun :
          (C33_Failed(lastRun[p].rounds[k]) /\ siteLog[i].site.ID = lastRun[p].rounds[k].site.ID)
              => siteLog[i].window.start.t <= lastRun[p].rounds[k].window.start.t

\* rounds k of the run before and i of this run ask for the same enabled
\* site, and the two requests are less than the ceiling apart
C34_Consecutive(p, k, i) ==
    /\ p.rounds[k].site.Enabled /\ siteLog[i].site.Enabled
    /\ p.rounds[k].site.ID = siteLog[i].site.ID
    /\ siteLog[i].window.end.t - p.rounds[k].window.end.t < C4_Ceiling

C35_Before == getLastRunTime(file0)
C35_After == getLastRunTime(file)

C36_WellFormedWindow ==
    (pc = "t_window" /\ loaded.ok) =>
        \/ window.start.t <= window.end.t
        \/ window.params.timestamp__ge <= window.params.timestamp__lt

\* the state collector p read belongs to target p, when it read any
C37_ReadOwn(p) ==
    \A i \in DOMAIN targets.read[p] :
        targets.read[p][i].st = "json" => targets.read[p][i].zabbix_host = targets.host[p]

\* the file of collector p holds what target p saved, unless p has not saved
C37_KeptOwn(p) ==
    targets.pc[p] = "saved" =>
        DiskRead(targets.disk, targets.lastRunFile[p]).zabbix_host = targets.host[p]

\* C37: two different target identities always map to different state files,
\* so a run for one target never reads and never overwrites the lastRunTime
\* persisted for the other one.
C37_KeyedByIdentity ==
    \A p \in Procs : \A q \in Procs \ {p} :
        (/\ targets.host[p] # targets.host[q]
         /\ targets.pc[p] # "none" /\ targets.pc[q] # "none")
        => /\ targets.lastRunFile[p] # targets.lastRunFile[q]
           /\ C37_ReadOwn(p)
           /\ C37_KeptOwn(p)

\* the ids the n-th call probed with tryGetData, and those that answered
C38_Probed(n) ==
    {rOut[n].calls[i].dev : i \in {j \in DOMAIN rOut[n].calls : rOut[n].calls[j].ep = "traffic"}}

C38_Answered(n) == {dev \in C38_Probed(n) : tryGetData(api, rApp, dev)}

\* the n-th call left through the short-circuit of strategy 1: the candidate
\* is a placeholder, nothing was probed, the id is the primary device id
C38_ShortCircuit(n) ==
    /\ isPlaceholderID(rOrig)
    /\ C38_Probed(n) = {}
    /\ rOut[n].id # ""
    /\ rOut[n].id = rOut[n].cache

\* C38: an id findWorkingDeviceID returns that is not the candidate is the
\* primary device id of the strategy-1 short-circuit or an id whose probe
\* answered with valid data in the same call; an id whose probe failed is
\* returned only when it is the candidate.
C38_ReturnedIsProbed ==
    \A n \in DOMAIN rOut :
        /\ rOut[n].id # rOrig => C38_ShortCircuit(n) \/ rOut[n].id \in C38_Answered(n)
        /\ rOut[n].id \in C38_Probed(n) \ C38_Answered(n) => rOut[n].id = rOrig

\* a call that found another id after probes that failed
C38_Witness ==
    \E n \in DOMAIN rOut :
        /\ rOut[n].id # rOrig
        /\ ~C38_ShortCircuit(n)
        /\ rOut[n].id \in C38_Answered(n)
        /\ C38_Probed(n) \ C38_Answered(n) # {}

\* a call that left through the short-circuit
C38_ShortCircuited == \E n \in DOMAIN rOut : C38_ShortCircuit(n) /\ rOut[n].id # rOrig

\* a call that gave the candidate back although its probe had failed
C38_CandidateBack ==
    \E n \in DOMAIN rOut : rOut[n].id = rOrig /\ rOrig \in C38_Probed(n) \ C38_Answered(n)

\* the key of a point, "metric[site]", as its two parts
C39_Key(p) == <<p.metric, p.site>>

C39_Keys(i) == {C39_Key(siteLog[i].points[k]) : k \in DOMAIN siteLog[i].points}

C39_KeyClocks(i) ==
    {<<C39_Key(siteLog[i].points[k]), siteLog[i].points[k].clock>> :
        k \in DOMAIN siteLog[i].points}

\* the statement for any two sites of the run, told apart by their ids
C39_Original ==
    \A i \in Rounds : \A j \in Rounds :
        siteLog[i].site.ID # siteLog[j].site.ID
        => C39_Keys(i) \cap C39_Keys(j) = {} /\ C39_KeyClocks(i) \cap C39_KeyClocks(j) = {}

\* C39 (amended): points emitted for two sites of one run whose names differ
\* never share a key, and so never share a (key, clock) pair; every status
\* and metric key of the batch identifies exactly one site name.
C39_KeysByName ==
    /\ \A i \in Rounds : \A j \in Rounds :
          siteLog[i].site.Name # siteLog[j].site.Name
          => C39_Keys(i) \cap C39_Keys(j) = {} /\ C39_KeyClocks(i) \cap C39_KeyClocks(j) = {}
    /\ \A i \in Rounds : \A k \in DOMAIN siteLog[i].points :
          siteLog[i].points[k].site = siteLog[i].site.Name

\* two enabled sites of different names that have points of one metric at
\* one clock
C39_Witness ==
    \E i \in Rounds : \E j \in Rounds :
        /\ siteLog[i].site.Name # siteLog[j].site.Name
        /\ siteLog[i].site.Enabled /\ siteLog[j].site.Enabled
        /\ \E p \in DOMAIN siteLog[i].points : \E q \in DOMAIN siteLog[j].points :
              /\ siteLog[i].points[p].metric = siteLog[j].points[q].metric
              /\ siteLog[i].points[p].metric # "waf.site.status"
              /\ siteLog[i].points[p].clock = siteLog[j].points[q].clock

\* the discovery records of the batch
C40_Records ==
    LET k == CHOOSE k \in DOMAIN data : data[k].metric = "waf.sites.discovery"
    IN  data[k].value.records

\* C40: for every enabled site the device id its discovery record advertises
\* ({#DEVICE_ID}, {#STRUCT_ID}) is the candidate id the collector passes to the
\* resolver for that site's traffic, whatever the site's struct id, "0" and
\* the empty string included.
C40_DiscoveryIsCandidate ==
    \A i \in Rounds :
        siteLog[i].site.Enabled
        => /\ C40_Records[i].SITE_ID = siteLog[i].site.ID
           /\ C40_Records[i].DEVICE_ID = siteLog[i].candidate
           /\ C40_Records[i].STRUCT_ID = siteLog[i].candidate

====
